---- MODULE Spec2Model ----
(***************************************************************************)
(* Verification model of the pendant droplet analyzer                      *)
(* (jhsu22/droplet-analyzer).                                              *)
(*                                                                         *)
(*   SpecEdge   process_frame_edge on every small Canny mask               *)
(*   SpecCalib  calibrate on every calibration-frame mask                  *)
(*   SpecRepeat process_frame_edge invoked several times                   *)
(*   SpecResid  YoungLaplaceFitter.calculate_residuals                     *)
(*   SpecFit    YoungLaplaceFitter.fit_profile and get_results             *)
(*   SpecTransform  YoungLaplaceFitter.transform_profile                    *)
(*   SpecApp    the App event handlers of main.py                          *)
(*   SpecAppLive  SpecApp with every scheduled callback run                *)
(*   SpecCrop   crop_image and the crop of process_frame_edge              *)
(*   SpecPopup  the CropPopup handlers of popup_windows.py                 *)
(*   SpecSerial SerialManager with its reader thread, and SpecSerialLive   *)
(*                                                                         *)
(* Images are records [w, h, px]; px maps the row-major pixel index        *)
(* k = row * w + col to the pixel value.  The library calls before the     *)
(* cleaning passes (cvtColor, medianBlur, GaussianBlur, Canny) are not     *)
(* computed: their output, the 0/255 image `edges`, is an input that       *)
(* ranges over every mask of the grid.                                     *)
(***************************************************************************)
EXTENDS Integers, Sequences, FiniteSets, TLC

VARIABLES
    \* --- process_frame_edge, one invocation ---
    e_edges,            \* output of cv2.Canny on the cropped frame
    e_min_object_size,  \* argument min_object_size
    e_min_size_mult,    \* argument min_size_mult, in hundredths
    e_adaptive,         \* argument adaptive_threshold
    e_result,           \* the returned dict (with the locals of the call), or NoResult
    e_history           \* the invocations of SpecRepeat so far: arguments and result

edgeVars == <<e_edges, e_min_object_size, e_min_size_mult, e_adaptive, e_result, e_history>>

VARIABLES
    \* --- calibrate, one invocation ---
    c_ret,              \* ret of video.read() for the calibration frame
    c_edges,            \* output of cv2.Canny on the calibration frame (NoFrame when ret is false)
    c_result            \* what calibrate computed, or NoResult

calVars == <<c_ret, c_edges, c_result>>

VARIABLES
    \* --- App (main.py) ---
    video_capture,      \* None or the opened video
    num_frames,         \* CAP_PROP_FRAME_COUNT of the last video opened
    video_slider,       \* frame.video_slider: [value, to]
    is_playing,
    is_calibrated,
    analysis_results,   \* list of per-frame records
    yl_fitted_points,
    processing_config,  \* the live CurrentProcessingConfig
    after_update_video, \* update_video callbacks scheduled with after(15, ...)
    last_calibration,   \* history: what the last calibrate call of this video returned
    last_fit,           \* history: frame and younglaplace_results of the last fit
    last_pipeline,      \* history: arguments of the last process_frame_edge call of update_video
    user_events         \* history: number of user events handled

appVars == <<video_capture, num_frames, video_slider, is_playing, is_calibrated,
             analysis_results, yl_fitted_points, processing_config,
             after_update_video, last_calibration, last_fit, last_pipeline,
             user_events>>

VARIABLES
    \* --- YoungLaplaceFitter, one object ---
    f_self,             \* the fitter object, or None before construction
    f_profile,          \* what generate_profile returns for the current bond_number
    f_residuals,        \* what the last calculate_residuals returned, or NoResult
    f_pc,               \* "none", "constructed", "fitting", "fitted" or "raised"
    f_results,          \* what get_results returned, or NoResult
    f_transformed       \* what the last transform_profile returned, or NoResult

fitVars == <<f_self, f_profile, f_residuals, f_pc, f_results, f_transformed>>

VARIABLES
    \* --- the crop region and the frame operations that read it ---
    k_frame,            \* shape [w, h] of the video frames
    k_crop,             \* x_start, y_start, x_end, y_end of processing_config, in half pixels
    k_popup,            \* None, or the fields of the open CropPopup
    k_result            \* what the last frame operation returned, or NoResult

cropVars == <<k_frame, k_crop, k_popup, k_result>>

VARIABLES
    \* --- SerialManager (serial_manager.py) and its callers in main.py ---
    s_open,             \* serial_connection.is_open of App.serial_manager
    s_is_running,       \* is_running of App.serial_manager
    s_reader,           \* its reader thread: "none", "check", "read", "put" or "dead"
    s_line,             \* the line the reader holds between readline and put
    s_port,             \* the lines still to come on the wire
    s_read_queue,       \* read_queue
    s_main,             \* the main thread: "none" before the first SerialManager,
                        \* "idle", or "join" inside disconnect
    s_orphans,          \* reader threads alive on SerialManagers that were replaced
    s_polls,            \* pending check_serial_queue callbacks
    s_read,             \* history: what readline returned, timeouts left out
    s_delivered,        \* history: what read_line returned, None left out
    s_returned          \* history: disconnect has returned since the last connect

serialVars == <<s_open, s_is_running, s_reader, s_line, s_port, s_read_queue, s_main,
                s_orphans, s_polls, s_read, s_delivered, s_returned>>

vars == <<edgeVars, calVars, appVars, fitVars, cropVars, serialVars>>

NoResult == [kind |-> "none"]
None == [kind |-> "None"]
NoFrame == None
Some(v) == [kind |-> "value", v |-> v]

-----------------------------------------------------------------------------
(* Bounds *)

EdgeW == 3              \* width of the masks of SpecEdge
EdgeH == 2              \* height of the masks of SpecEdge
MaxMinObjectSize == 3   \* largest min_object_size tried
CalW == 5               \* width of the masks of SpecCalib
CalH == 3               \* height of the masks of SpecCalib
MaxFrames == 3          \* longest video of SpecApp
MaxNfev == 2            \* largest function-evaluation count least_squares reports
MaxUserEvents == 4      \* user events per behaviour of SpecApp
MaxPending == 2         \* update_video callbacks scheduled at once
MaxEdgePoints == 2      \* most edge points drawn freely in SpecResid
MaxProfilePoints == 2   \* most profile points after the apex in SpecResid
MaxCalls == 2           \* most invocations of process_frame_edge in SpecRepeat
MaxFrameW == 3          \* widest frame of SpecCrop
MaxCropCoord == 3       \* largest crop coordinate of SpecCrop, in pixels
MaxLines == 2           \* most lines on the wire in SpecSerial
MaxConnects == 2        \* most App.connect_serial calls that open a port in SpecSerial
CanvasMax == 1          \* largest canvas coordinate of a mouse event in SpecPopup

(* min_size_mult is a slider value with MIN_MULT_STEPS steps between 0 and 1: *)
(* it is carried as an integer number of hundredths.                          *)
MIN_MULT_STEPS == 100
MultValues == {0, 33, 50, 67, 100}

-----------------------------------------------------------------------------
(* Images *)

Pixels(img) == 0 .. (img.w * img.h - 1)
Col(img, k) == k % img.w
Row(img, k) == k \div img.w

Masks(w, h) == { [w |-> w, h |-> h, px |-> f] : f \in [0 .. (w * h - 1) -> {0, 255}] }

\* Foreground of a uint8 image and of a boolean array.
Nonzero(img) == { k \in Pixels(img) : img.px[k] # 0 }
TruePixels(ar) == { k \in Pixels(ar) : ar.px[k] }

\* scipy.ndimage.generate_binary_structure(2, 1): the 4-neighbourhood, which is
\* what skimage.morphology.remove_small_objects uses by default (connectivity=1).
Adjacent(img, a, b) ==
    \/ Row(img, a) = Row(img, b) /\ (Col(img, a) - Col(img, b)) \in {-1, 1}
    \/ Col(img, a) = Col(img, b) /\ (Row(img, a) - Row(img, b)) \in {-1, 1}

RECURSIVE Grow(_, _, _)
Grow(img, S, C) ==
    LET N == { q \in S \ C : \E c \in C : Adjacent(img, c, q) }
    IN  IF N = {} THEN C ELSE Grow(img, S, C \cup N)

\* scipy.ndimage.label on a boolean array: the component of foreground pixel k.
Component(ar, k) == Grow(ar, TruePixels(ar), {k})

\* skimage.morphology.remove_small_objects(ar, min_size) on a boolean array:
\* min_size = 0 returns the copy untouched, otherwise every component with
\* fewer than min_size pixels is cleared.
remove_small_objects_le(ar, min_size) ==
    IF min_size = 0
    THEN ar
    ELSE [ar EXCEPT !.px = [k \in Pixels(ar) |->
            IF ar.px[k] /\ Cardinality(Component(ar, k)) <= min_size
            THEN FALSE ELSE ar.px[k]]]

remove_small_objects(ar, min_size) ==
    IF min_size = 0
    THEN ar
    ELSE [ar EXCEPT !.px = [k \in Pixels(ar) |->
            IF ar.px[k] /\ Cardinality(Component(ar, k)) < min_size
            THEN FALSE ELSE ar.px[k]]]

bwareaopen(binary_image, min_size) ==
    LET binary_bool == [binary_image EXCEPT !.px =
                           [k \in Pixels(binary_image) |-> binary_image.px[k] # 0]]
        cleaned == remove_small_objects(binary_bool, min_size)
    IN  [cleaned EXCEPT !.px = [k \in Pixels(cleaned) |->
                                   IF cleaned.px[k] THEN 255 ELSE 0]]

\* extract_edge_points with column_stack((row, col)).
extract_edge_points_row_col(binary_image) ==
    LET n == binary_image.w * binary_image.h
        all == [i \in 1 .. n |-> i - 1]
        IsSet(k) == binary_image.px[k] # 0
        nz == SelectSeq(all, IsSet)
    IN  [i \in 1 .. Len(nz) |-> <<Row(binary_image, nz[i]), Col(binary_image, nz[i])>>]

\* np.nonzero scans row-major; column_stack((col, row)) gives (x, y) pairs.
extract_edge_points(binary_image) ==
    LET n == binary_image.w * binary_image.h
        all == [i \in 1 .. n |-> i - 1]
        IsSet(k) == binary_image.px[k] # 0
        nz == SelectSeq(all, IsSet)
    IN  [i \in 1 .. Len(nz) |-> <<Col(binary_image, nz[i]), Row(binary_image, nz[i])>>]

\* The image the second cleaning pass works on.
SecondPassInput_edges(edges, clean_pass1) == edges

SecondPassInput(edges, clean_pass1) == clean_pass1

\* process_frame_edge from the Canny output on.  adaptive_threshold is
\* accepted and never read: the second pass always runs.
process_frame_edge(edges, min_object_size, min_size_mult, adaptive_threshold) ==
    LET clean_pass1 == bwareaopen(edges, min_object_size)
        pass1_points == extract_edge_points(clean_pass1)
        min_size_adapted == (Len(pass1_points) * min_size_mult) \div MIN_MULT_STEPS
        clean_edges == bwareaopen(SecondPassInput(edges, clean_pass1), min_size_adapted)
        edge_points == extract_edge_points(clean_edges)
    IN  [kind |-> "dict",
         clean_pass1 |-> clean_pass1,
         pass1_points |-> pass1_points,
         min_size_adapted |-> min_size_adapted,
         binary_edge_image |-> clean_edges,
         edge_points |-> edge_points,
         num_edge_points |-> Len(edge_points)]

\* process_frame_edge with calibration_radius used as min_object_size.
process_frame_edge_kw_radius(edges, min_object_size, min_size_mult, adaptive_threshold, calibration_radius) ==
    IF calibration_radius = None
    THEN process_frame_edge(edges, min_object_size, min_size_mult, adaptive_threshold)
    ELSE process_frame_edge(edges, calibration_radius.v, min_size_mult, adaptive_threshold)

\* process_frame_edge with its keyword calibration_radius, which the body
\* never reads.  The function reads no module state when it is called: its
\* defaults were evaluated when it was defined.
process_frame_edge_kw(edges, min_object_size, min_size_mult, adaptive_threshold, calibration_radius) ==
    process_frame_edge(edges, min_object_size, min_size_mult, adaptive_threshold)

-----------------------------------------------------------------------------
(* calibrate *)

CALIBRATION_MIN_OBJECT_SIZE == 2

\* process_frame_edge's default min_size_mult is processing_config.min_size_mult
\* as it was when the function was defined: DEFAULT_MIN_SIZE_MULT = 0.33.
DEFAULT_MIN_SIZE_MULT == 33

RECURSIVE SumSeq(_)
SumSeq(q) == IF q = <<>> THEN 0 ELSE Head(q) + SumSeq(Tail(q))

Xs(points) == [i \in 1 .. Len(points) |-> points[i][1]]
Ys(points) == [i \in 1 .. Len(points) |-> points[i][2]]

\* np.mean of an integer column: the rational sum / count.
np_mean(column) == [num |-> SumSeq(column), den |-> Len(column)]

\* (column - mean) ** 2, entry by entry, as a rational over den^2.
SquaredDeviation(column, mean) ==
    [i \in 1 .. Len(column) |->
        [num |-> (mean.den * column[i] - mean.num) * (mean.den * column[i] - mean.num),
         den |-> mean.den * mean.den]]

\* np.sqrt(x1, out): the second positional argument is the output buffer, so
\* the result is sqrt(x1) entry by entry.  A root is carried by its radicand.
np_sqrt(x1, out) == [i \in 1 .. Len(x1) |-> [radicand |-> x1[i]]]

\* calibrate from the read of the calibration frame on.  An unreadable frame
\* only prints: frame is None and process_frame_edge indexes it in crop_image.
calibrate(ret, edges) ==
    IF ~ret
    THEN [kind |-> "raised", error |-> "TypeError"]
    ELSE
    LET calibration_results ==
            process_frame_edge(edges, CALIBRATION_MIN_OBJECT_SIZE,
                               DEFAULT_MIN_SIZE_MULT, FALSE)
        calibration_edge_points == calibration_results.edge_points
        calibration_center_x == np_mean(Xs(calibration_edge_points))
        calibration_center_y == np_mean(Ys(calibration_edge_points))
        distances_from_center ==
            np_sqrt(SquaredDeviation(Xs(calibration_edge_points), calibration_center_x),
                    SquaredDeviation(Ys(calibration_edge_points), calibration_center_y))
    IN  IF Len(calibration_edge_points) > 0
        THEN [kind |-> "returned",
              calibration_results |-> calibration_results,
              calibration_center_x |-> calibration_center_x,
              calibration_center_y |-> calibration_center_y,
              distances_from_center |-> distances_from_center,
              calibration_radius |-> [mean_of |-> distances_from_center]]
        ELSE [kind |-> "returned",
              calibration_results |-> calibration_results,
              calibration_center_x |-> 0,
              calibration_center_y |-> 0,
              distances_from_center |-> <<>>,
              calibration_radius |-> 0]

-----------------------------------------------------------------------------
(* YoungLaplaceFitter *)

(* Numbers of the fitter.  apex_radius, apex_x, apex_y are integers (pixels). *)
(* bond_number is carried in units of 1e-6.  rotation is carried by the      *)
(* exact sine and cosine of the angle, each times 5: 0 is [sin5 |-> 0,       *)
(* cos5 |-> 5], atan(3/4) = 0.6435 is [sin5 |-> 3, cos5 |-> 4] and           *)
(* atan(4/3) = 0.9273 is [sin5 |-> 4, cos5 |-> 3].                           *)
G_X100 == 981                   \* self.g = 9.81
LOWER_APEX_RADIUS == 1          \* bounds[0][0]
LOWER_BOND_NUMBER == 1000       \* bounds[0][1] = 0.001

Rot0 == [sin5 |-> 0, cos5 |-> 5]
RotPlus == [sin5 |-> 3, cos5 |-> 4]
RotMinus == [sin5 |-> -3, cos5 |-> 4]
RotSteep == [sin5 |-> 4, cos5 |-> 3]

Abs(v) == IF v < 0 THEN -v ELSE v

\* -pi/4 <= rotation <= pi/4, for angles strictly between -pi/2 and pi/2.
RotationInBounds(rotation) == rotation.cos5 > 0 /\ Abs(rotation.sin5) <= rotation.cos5

\* __init__
YoungLaplaceFitter(edge_data, initial_parameters, np_scalars) ==
    [edge_data |-> edge_data,
     apex_radius |-> initial_parameters.apex_radius,
     apex_x |-> initial_parameters.apex_x,
     apex_y |-> initial_parameters.apex_y,
     rotation |-> initial_parameters.rotation,
     bond_number |-> initial_parameters.bond_number,
     delta_rho |-> initial_parameters.delta_rho,
     calibration_factor |-> initial_parameters.calibration_factor,
     iterations |-> 0,
     is_converged |-> FALSE,
     np_scalars |-> np_scalars]     \* are the five parameters numpy scalars?

\* The vector [apex_radius, bond_number, apex_x, apex_y, rotation].
ParamVector(self) ==
    [apex_radius |-> self.apex_radius, bond_number |-> self.bond_number,
     apex_x |-> self.apex_x, apex_y |-> self.apex_y, rotation |-> self.rotation]

\* The bounds handed to least_squares.
InBounds(x) ==
    /\ x.apex_radius >= LOWER_APEX_RADIUS
    /\ x.bond_number >= LOWER_BOND_NUMBER
    /\ RotationInBounds(x.rotation)

\* fit_profile with apex_radius and bond_number taken from each other's place.
fit_profile_swapped(self, result) ==
    [self EXCEPT !.apex_radius = result.x.bond_number,
                 !.bond_number = result.x.apex_radius,
                 !.apex_x = result.x.apex_x,
                 !.apex_y = result.x.apex_y,
                 !.rotation = result.x.rotation,
                 !.np_scalars = TRUE,
                 !.iterations = result.nfev,
                 !.is_converged = result.success]

\* _scipy_residuals: the trial vector is unpacked into the fitter.
scipy_residuals(self, params) ==
    [self EXCEPT !.apex_radius = params.apex_radius,
                 !.bond_number = params.bond_number,
                 !.apex_x = params.apex_x,
                 !.apex_y = params.apex_y,
                 !.rotation = params.rotation,
                 !.np_scalars = TRUE]

Reverse(q) == [i \in 1 .. Len(q) |-> q[Len(q) + 1 - i]]

\* transform_profile with the apex point kept in the mirrored half too.
transform_profile_apex_twice(self, profile_r, profile_z) ==
    LET r_full == [i \in 1 .. Len(profile_r) |-> -Reverse(profile_r)[i]] \o profile_r
        z_full == Reverse(profile_z) \o profile_z
    IN  [r5 |-> [i \in 1 .. Len(r_full) |->
                    r_full[i] * self.apex_radius * self.rotation.cos5
                    - z_full[i] * self.apex_radius * self.rotation.sin5
                    + 5 * self.apex_x],
         z5 |-> [i \in 1 .. Len(z_full) |->
                    r_full[i] * self.apex_radius * self.rotation.sin5
                    + z_full[i] * self.apex_radius * self.rotation.cos5
                    + 5 * self.apex_y]]

\* transform_profile with the given half before its mirror image.
transform_profile_right_first(self, profile_r, profile_z) ==
    LET r_left == [i \in 1 .. Len(profile_r) - 1 |-> -Reverse(Tail(profile_r))[i]]
        r_full == profile_r \o r_left
        z_full == profile_z \o Reverse(Tail(profile_z))
    IN  [r5 |-> [i \in 1 .. Len(r_full) |->
                    r_full[i] * self.apex_radius * self.rotation.cos5
                    - z_full[i] * self.apex_radius * self.rotation.sin5
                    + 5 * self.apex_x],
         z5 |-> [i \in 1 .. Len(z_full) |->
                    r_full[i] * self.apex_radius * self.rotation.sin5
                    + z_full[i] * self.apex_radius * self.rotation.cos5
                    + 5 * self.apex_y]]

\* transform_profile: mirror, scale, rotate, translate.  The returned
\* coordinates are 5 times the pixel coordinates, so that the rotation by
\* [sin5, cos5] stays in the integers.
transform_profile(self, profile_r, profile_z) ==
    LET r_left == [i \in 1 .. Len(profile_r) - 1 |-> -Reverse(Tail(profile_r))[i]]
        r_full == r_left \o profile_r
        z_left == Reverse(Tail(profile_z))
        z_full == z_left \o profile_z
        r_scaled == [i \in 1 .. Len(r_full) |-> r_full[i] * self.apex_radius]
        z_scaled == [i \in 1 .. Len(z_full) |-> z_full[i] * self.apex_radius]
        cos_rot5 == self.rotation.cos5
        sin_rot5 == self.rotation.sin5
        r_rotated5 == [i \in 1 .. Len(r_full) |->
                          r_scaled[i] * cos_rot5 - z_scaled[i] * sin_rot5]
        z_rotated5 == [i \in 1 .. Len(z_full) |->
                          r_scaled[i] * sin_rot5 + z_scaled[i] * cos_rot5]
    IN  [r5 |-> [i \in 1 .. Len(r_full) |-> r_rotated5[i] + 5 * self.apex_x],
         z5 |-> [i \in 1 .. Len(z_full) |-> z_rotated5[i] + 5 * self.apex_y]]

\* np.column_stack((r_translated, z_translated))
column_stack(t) == [j \in 1 .. Len(t.r5) |-> <<t.r5[j], t.z5[j]>>]

\* cdist(XA, XB): the matrix of Euclidean distances, one row per point of XA.
\* XA is in pixels, XB in fifths of a pixel; a distance d is carried by
\* radicand25 = 25 * d * d.
cdist(XA, XB5) ==
    [i \in 1 .. Len(XA) |->
        [j \in 1 .. Len(XB5) |->
            [radicand25 |-> (5 * XA[i][1] - XB5[j][1]) * (5 * XA[i][1] - XB5[j][1])
                          + (5 * XA[i][2] - XB5[j][2]) * (5 * XA[i][2] - XB5[j][2])]]]

MinRadicand(q) ==
    CHOOSE d \in { q[j] : j \in 1 .. Len(q) } :
        \A j \in 1 .. Len(q) : d.radicand25 <= q[j].radicand25

\* np.min(distances, axis=0): one entry per column.
np_min_axis0(distances) ==
    IF Len(distances) = 0 THEN <<>>
    ELSE [j \in 1 .. Len(distances[1]) |->
             MinRadicand([i \in 1 .. Len(distances) |-> distances[i][j]])]

\* np.min(distances, axis=1): one entry per row.
np_min_axis1(distances) ==
    [i \in 1 .. Len(distances) |-> MinRadicand(distances[i])]

\* calculate_residuals; profile is what generate_profile returned.
calculate_residuals(self, profile) ==
    LET t == transform_profile(self, profile.profile_r, profile.profile_z)
        theoretical_data == column_stack(t)
        distances == cdist(self.edge_data, theoretical_data)
    IN  np_min_axis1(distances)

fit_profile(self, result) ==
    [self EXCEPT !.apex_radius = result.x.apex_radius,
                 !.bond_number = result.x.bond_number,
                 !.apex_x = result.x.apex_x,
                 !.apex_y = result.x.apex_y,
                 !.rotation = result.x.rotation,
                 !.np_scalars = TRUE,
                 !.iterations = result.nfev,
                 !.is_converged = result.success]

\* delta_rho * g * apex_radius_physical**2 / bond_number.  There is no guard:
\* a Python zero divisor raises ZeroDivisionError, a numpy zero divisor gives
\* inf (nan for 0/0), anything else gives the quotient
\*   num / den * 10^pow10.
calculate_surface_tension(self) ==
    LET apex_radius_physical == self.apex_radius * self.calibration_factor
        numerator == self.delta_rho * G_X100 * apex_radius_physical * apex_radius_physical
    IN  IF self.bond_number = 0
        THEN IF ~self.np_scalars THEN [kind |-> "raised", error |-> "ZeroDivisionError"]
             ELSE IF numerator = 0 THEN [kind |-> "nan"]
             ELSE [kind |-> "inf"]
        ELSE [kind |-> "number", num |-> numerator, den |-> self.bond_number, pow10 |-> 4]

\* The dimensionless integral comes from solve_ivp and np.trapz and is kept
\* symbolic; it is scaled by apex_radius_physical**3.
calculate_volume(self) ==
    LET apex_radius_physical == self.apex_radius * self.calibration_factor
    IN  [kind |-> "number",
         vol_dimensionless_for_bo |-> self.bond_number,
         times |-> apex_radius_physical * apex_radius_physical * apex_radius_physical]

get_results(self) ==
    LET surface_tension == calculate_surface_tension(self)
    IN  IF surface_tension.kind = "raised"
        THEN surface_tension
        ELSE [kind |-> "dict",
              surface_tension |-> surface_tension,
              volume |-> calculate_volume(self),
              bond_number |-> self.bond_number,
              apex_radius_pixels |-> self.apex_radius,
              apex_radius_physical |-> self.apex_radius * self.calibration_factor,
              apex_x |-> self.apex_x,
              apex_y |-> self.apex_y,
              rotation |-> self.rotation,
              is_converged |-> self.is_converged,
              iterations |-> self.iterations]

-----------------------------------------------------------------------------
(* App *)

MIN_EDGE_POINTS == 5
CALIBRATION_FRAME_OFFSET == 1
DEFAULT_MIN_OBJECT_SIZE == 2

\* Frames of a video: unreadable, or readable with the Canny output it gives.
UnreadableFrame == [ret |-> FALSE, edges |-> NoFrame]
BlankMask == [w |-> 3, h |-> 2, px |-> [k \in 0 .. 5 |-> 0]]
RowMask == [w |-> 3, h |-> 2, px |-> [k \in 0 .. 5 |-> IF k < 3 THEN 255 ELSE 0]]
FullMask == [w |-> 3, h |-> 2, px |-> [k \in 0 .. 5 |-> 255]]
FrameKinds == {UnreadableFrame} \cup
              { [ret |-> TRUE, edges |-> m] : m \in {BlankMask, RowMask, FullMask} }

RECURSIVE SeqsOfLen(_, _)
SeqsOfLen(S, n) ==
    IF n = 0 THEN { <<>> }
    ELSE { Append(q, x) : q \in SeqsOfLen(S, n - 1), x \in S }

Videos == { [frames |-> f] : f \in UNION { SeqsOfLen(FrameKinds, n) : n \in 2 .. MaxFrames } }

\* video.set(CAP_PROP_POS_FRAMES, n); video.read()
video_read(video, n) ==
    IF n \in 0 .. (Len(video.frames) - 1) THEN video.frames[n + 1] ELSE UnreadableFrame

\* CTkSlider.set: the value is clamped to [from_, to], from_ = 0.
slider_set(slider, value) ==
    [slider EXCEPT !.value = IF value > slider.to THEN slider.to
                             ELSE IF value < 0 THEN 0 ELSE value]

\* CurrentProcessingConfig.__init__, with the physical constants update_video
\* reads from it (bond_number in units of 1e-6).
InitialProcessingConfig ==
    [min_object_size |-> DEFAULT_MIN_OBJECT_SIZE,
     min_size_mult |-> DEFAULT_MIN_SIZE_MULT,
     bond_number |-> 500000,
     delta_rho |-> 1,
     calibration_factor |-> 1]

\* The App fields as one record, so that a handler can call another.
AppState ==
    [video_capture |-> video_capture, num_frames |-> num_frames,
     video_slider |-> video_slider, is_playing |-> is_playing,
     is_calibrated |-> is_calibrated, analysis_results |-> analysis_results,
     yl_fitted_points |-> yl_fitted_points, processing_config |-> processing_config,
     after_update_video |-> after_update_video,
     last_calibration |-> last_calibration, last_fit |-> last_fit,
     last_pipeline |-> last_pipeline]

Commit(a) ==
    /\ video_capture' = a.video_capture
    /\ num_frames' = a.num_frames
    /\ video_slider' = a.video_slider
    /\ is_playing' = a.is_playing
    /\ is_calibrated' = a.is_calibrated
    /\ analysis_results' = a.analysis_results
    /\ yl_fitted_points' = a.yl_fitted_points
    /\ processing_config' = a.processing_config
    /\ after_update_video' = a.after_update_video
    /\ last_calibration' = a.last_calibration
    /\ last_fit' = a.last_fit
    /\ last_pipeline' = a.last_pipeline

\* show_frame: the slider follows only a frame that could be read.
show_frame(a, frame_num) ==
    IF a.video_capture = None
    THEN a
    ELSE IF video_read(a.video_capture, frame_num).ret
         THEN [a EXCEPT !.video_slider = slider_set(a.video_slider, frame_num)]
         ELSE a

\* load_video; video = None stands for a file that could not be opened.
load_video(a, video) ==
    IF video = None
    THEN [a EXCEPT !.video_capture = None]
    ELSE show_frame([a EXCEPT !.video_capture = video,
                              !.num_frames = Len(video.frames),
                              !.video_slider.to = Len(video.frames) - 1,
                              !.is_calibrated = FALSE,
                              !.last_calibration = NoResult],
                    0)

\* seek_video_frame: the user has put the slider at value.
seek_video_frame(a, value) ==
    show_frame([a EXCEPT !.video_slider.value = value], value)

\* The dict of the calibrate that main.py imports: the values are those
\* calibrate computes, read by key.
calibrate_dict(ret, edges) == calibrate(ret, edges)

\* start_calibration; an exception inside calibrate leaves the App as it was.
start_calibration(a) ==
    IF a.video_capture = None
    THEN a
    ELSE LET current_frame == a.video_slider.value
             fr == video_read(a.video_capture, current_frame + CALIBRATION_FRAME_OFFSET)
             calibration_results == calibrate_dict(fr.ret, fr.edges)
         IN  IF calibration_results.kind = "raised"
             THEN a
             ELSE [a EXCEPT !.is_calibrated = TRUE,
                            !.last_calibration = calibration_results]

\* The dict of the process_frame_edge that main.py imports: the fields of
\* process_frame_edge plus apex_radius and apex_point, which are inputs here.
\* An apex is reported only for a frame that has edge points.
frame_results_dict(edge_results, apex) ==
    LET no_apex == apex = None \/ edge_results.num_edge_points = 0
    IN  [edge_points |-> edge_results.edge_points,
         num_edge_points |-> edge_results.num_edge_points,
         apex_radius |-> IF no_apex THEN None ELSE Some(apex.v.radius),
         apex_point |-> IF no_apex THEN None ELSE Some(apex.v.point)]

\* update_video, from its last lines to its first.  Each step takes what the
\* lines before it computed.

\* The end of update_video: the slider moves on and the callback is scheduled
\* again.
update_video_advance(a, current_frame) ==
    [state |-> [a EXCEPT !.video_slider = slider_set(a.video_slider, current_frame + 1),
                         !.after_update_video = @ + 1],
     raised |-> FALSE]

\* The record of the frame is appended.
update_video_append(a, current_frame, frame_results) ==
    update_video_advance(
        [a EXCEPT !.analysis_results =
             Append(@, [frame_number |-> current_frame,
                        apex_radius |-> frame_results.apex_radius,
                        num_edge_points |-> frame_results.num_edge_points])],
        current_frame)

\* get_results has returned (or raised): the fitted profile is kept, the
\* results are printed when the fit converged.
update_video_results(a, current_frame, frame_results, fit, initial_guess, fitter, younglaplace_results) ==
    IF younglaplace_results.kind = "raised"
    THEN [state |-> a, raised |-> TRUE]
    ELSE update_video_append(
             [a EXCEPT !.yl_fitted_points = Some(ParamVector(fitter)),
                       !.last_fit = [frame |-> current_frame,
                                     initial |-> initial_guess,
                                     previous |-> IF a.last_fit = None THEN None
                                                  ELSE [frame |-> a.last_fit.frame,
                                                        results |-> a.last_fit.results],
                                     returned |-> fit,
                                     results |-> younglaplace_results]],
             current_frame, frame_results)

\* fitter.fit_profile() and fitter.get_results(); fit is what least_squares
\* returns when x0 is within the bounds.
update_video_fit(a, current_frame, frame_results, fit, fitter0) ==
    IF ~InBounds(ParamVector(fitter0))
    THEN [state |-> a, raised |-> TRUE]
    ELSE update_video_results(a, current_frame, frame_results, fit,
                              ParamVector(fitter0),
                              fit_profile(fitter0, fit),
                              get_results(fit_profile(fitter0, fit)))

\* The frame has been processed: fit when there are points and an apex.
update_video_frame(a, current_frame, frame_results, fit) ==
    IF frame_results.apex_radius # None /\ frame_results.apex_point # None
    THEN update_video_fit(
             a, current_frame, frame_results, fit,
             YoungLaplaceFitter(
                 frame_results.edge_points,
                 [apex_radius |-> frame_results.apex_radius.v,
                  apex_x |-> frame_results.apex_point.v[1],
                  apex_y |-> frame_results.apex_point.v[2],
                  rotation |-> Rot0,
                  bond_number |-> a.processing_config.bond_number,
                  delta_rho |-> a.processing_config.delta_rho,
                  calibration_factor |-> a.processing_config.calibration_factor],
                 FALSE))
    ELSE update_video_append(a, current_frame, frame_results)

\* The keyword defaults of process_frame_edge: Python evaluates them once,
\* when the def statement runs at import, from the processing_config of that
\* moment.
process_frame_edge_defaults ==
    [min_object_size |-> InitialProcessingConfig.min_object_size,
     min_size_mult |-> InitialProcessingConfig.min_size_mult]

\* The keyword arguments update_video passes to process_frame_edge, with the
\* default for the one it leaves out (min_size_mult).
update_video_kwargs(a) ==
    [min_object_size |-> a.processing_config.min_object_size,
     min_size_mult |-> process_frame_edge_defaults.min_size_mult]

\* ret, frame = self.video_capture.read()
update_video_read(a, current_frame, fr, apex, fit) ==
    IF fr.ret
    THEN update_video_frame(
             [a EXCEPT !.last_pipeline = [frame |-> current_frame,
                                          kwargs |-> update_video_kwargs(a),
                                          live |-> a.processing_config]],
             current_frame,
             frame_results_dict(
                 process_frame_edge(fr.edges, update_video_kwargs(a).min_object_size,
                                    update_video_kwargs(a).min_size_mult, TRUE),
                 apex),
             fit)
    ELSE update_video_advance(a, current_frame)

\* update_video.  apex is what the edge extraction reports about the apex,
\* fit is what least_squares returns if the fit runs.  The result has
\* raised = TRUE when an exception leaves the callback.
update_video(a, apex, fit) ==
    IF ~a.is_playing
    THEN [state |-> a, raised |-> FALSE]
    ELSE IF a.video_slider.value < a.num_frames - 1
         THEN IF a.video_capture = None
              THEN [state |-> a, raised |-> TRUE]
              ELSE update_video_read(a, a.video_slider.value,
                                     video_read(a.video_capture, a.video_slider.value),
                                     apex, fit)
         ELSE [state |-> [a EXCEPT !.is_playing = FALSE], raised |-> FALSE]

\* start_analysis
start_analysis(a, apex, fit) ==
    IF ~a.is_calibrated
    THEN a
    ELSE update_video([a EXCEPT !.analysis_results = <<>>,
                                !.last_fit = None,
                                !.is_playing = TRUE,
                                !.yl_fitted_points = None,
                                !.video_slider = slider_set(a.video_slider, 0)],
                      apex, fit).state

-----------------------------------------------------------------------------
(* SpecEdge: one call of process_frame_edge on every mask and parameter set *)

EdgeIdle ==
    /\ e_edges = NoFrame
    /\ e_min_object_size = 0
    /\ e_min_size_mult = 0
    /\ e_adaptive = FALSE
    /\ e_result = NoResult
    /\ e_history = <<>>

CalIdle ==
    /\ c_ret = FALSE
    /\ c_edges = NoFrame
    /\ c_result = NoResult

SerialIdle ==
    /\ s_open = FALSE
    /\ s_is_running = FALSE
    /\ s_reader = "none"
    /\ s_line = None
    /\ s_port = <<>>
    /\ s_read_queue = <<>>
    /\ s_main = "none"
    /\ s_orphans = 0
    /\ s_polls = 0
    /\ s_read = <<>>
    /\ s_delivered = <<>>
    /\ s_returned = FALSE

CropIdle ==
    /\ k_frame = None
    /\ k_crop = None
    /\ k_popup = None
    /\ k_result = NoResult

FitIdle ==
    /\ f_self = None
    /\ f_profile = None
    /\ f_residuals = NoResult
    /\ f_pc = "none"
    /\ f_results = NoResult
    /\ f_transformed = NoResult

\* App.__init__
AppIdle ==
    /\ video_capture = None
    /\ num_frames = 0
    /\ video_slider = [value |-> 0, to |-> 1]
    /\ is_playing = FALSE
    /\ is_calibrated = FALSE
    /\ analysis_results = <<>>
    /\ yl_fitted_points = None
    /\ processing_config = InitialProcessingConfig
    /\ after_update_video = 0
    /\ last_calibration = NoResult
    /\ last_fit = None
    /\ last_pipeline = None
    /\ user_events = 0

EdgeInit ==
    /\ CropIdle
    /\ SerialIdle
    /\ CalIdle
    /\ AppIdle
    /\ FitIdle
    /\ e_edges \in Masks(EdgeW, EdgeH)
    /\ e_min_object_size \in 0 .. MaxMinObjectSize
    /\ e_min_size_mult \in MultValues
    /\ e_adaptive \in BOOLEAN
    /\ e_result = NoResult
    /\ e_history = <<>>

ProcessFrameEdge ==
    /\ e_result = NoResult
    /\ e_result' = process_frame_edge(e_edges, e_min_object_size, e_min_size_mult, e_adaptive)
    /\ UNCHANGED <<e_edges, e_min_object_size, e_min_size_mult, e_adaptive, e_history>>
    /\ UNCHANGED <<calVars, appVars, fitVars, cropVars, serialVars>>

EdgeNext == ProcessFrameEdge

SpecEdge == EdgeInit /\ [][EdgeNext]_vars

-----------------------------------------------------------------------------
(* SpecCalib: one call of calibrate on every calibration frame *)

CalInit ==
    /\ CropIdle
    /\ SerialIdle
    /\ EdgeIdle
    /\ AppIdle
    /\ FitIdle
    /\ \/ c_ret = TRUE /\ c_edges \in Masks(CalW, CalH)
       \/ c_ret = FALSE /\ c_edges = NoFrame
    /\ c_result = NoResult

Calibrate ==
    /\ c_result = NoResult
    /\ c_result' = calibrate(c_ret, c_edges)
    /\ UNCHANGED <<c_ret, c_edges>>
    /\ UNCHANGED <<edgeVars, appVars, fitVars, cropVars, serialVars>>

CalNext == Calibrate

SpecCalib == CalInit /\ [][CalNext]_vars

-----------------------------------------------------------------------------
(* SpecApp: the App handlers, run one at a time by the Tk event loop *)

\* What the edge extraction may report about the apex of a frame.
ApexReports ==
    { None, Some([radius |-> 2, point |-> <<1, 1>>]), Some([radius |-> 0, point |-> <<1, 1>>]) }

\* What least_squares may return: a vector within the bounds, the number of
\* function evaluations and the success flag.
FitReturns ==
    { [x |-> [apex_radius |-> 2, bond_number |-> 500000, apex_x |-> 1, apex_y |-> 1,
              rotation |-> Rot0],
       nfev |-> 1, success |-> TRUE],
      [x |-> [apex_radius |-> 3, bond_number |-> LOWER_BOND_NUMBER, apex_x |-> 1,
              apex_y |-> 0, rotation |-> RotPlus],
       nfev |-> MaxNfev, success |-> FALSE] }

AppInit ==
    /\ CropIdle
    /\ SerialIdle
    /\ EdgeIdle
    /\ CalIdle
    /\ FitIdle
    /\ AppIdle

UserEvent ==
    /\ user_events < MaxUserEvents
    /\ user_events' = user_events + 1

LoadVideo ==
    /\ UserEvent
    /\ \E video \in Videos \cup {None} :
          \E a \in {load_video(AppState, video)} : Commit(a)
    /\ UNCHANGED <<edgeVars, calVars, fitVars, cropVars, serialVars>>

SeekVideoFrame ==
    /\ UserEvent
    /\ video_capture # None
    /\ \E value \in 0 .. video_slider.to :
          \E a \in {seek_video_frame(AppState, value)} : Commit(a)
    /\ UNCHANGED <<edgeVars, calVars, fitVars, cropVars, serialVars>>

\* A parameter slider commits its value to the live processing_config.
SliderCommits == { <<"min_object_size", 3>>, <<"min_size_mult", 100>> }

commit_slider(a, name, value) ==
    [a EXCEPT !.processing_config[name] = value]

CommitSlider ==
    /\ UserEvent
    /\ \E c \in SliderCommits :
          \E a \in {commit_slider(AppState, c[1], c[2])} : Commit(a)
    /\ UNCHANGED <<edgeVars, calVars, fitVars, cropVars, serialVars>>

StartCalibration ==
    /\ UserEvent
    /\ video_capture # None
    /\ \E a \in {start_calibration(AppState)} : Commit(a)
    /\ UNCHANGED <<edgeVars, calVars, fitVars, cropVars, serialVars>>

StartAnalysis ==
    /\ UserEvent
    /\ after_update_video < MaxPending
    /\ \E apex \in ApexReports, fit \in FitReturns :
          \E a \in {start_analysis(AppState, apex, fit)} : Commit(a)
    /\ UNCHANGED <<edgeVars, calVars, fitVars, cropVars, serialVars>>

\* A scheduled update_video callback runs.
UpdateVideo ==
    /\ after_update_video > 0
    /\ \E apex \in ApexReports, fit \in FitReturns :
          \E r \in {update_video([AppState EXCEPT !.after_update_video = @ - 1],
                                  apex, fit)} : Commit(r.state)
    /\ UNCHANGED user_events
    /\ UNCHANGED <<edgeVars, calVars, fitVars, cropVars, serialVars>>

AppNext ==
    \/ LoadVideo
    \/ SeekVideoFrame
    \/ CommitSlider
    \/ StartCalibration
    \/ StartAnalysis
    \/ UpdateVideo

SpecApp == AppInit /\ [][AppNext]_vars

\* Tk runs every callback scheduled with after(15, ...).
SpecAppLive == AppInit /\ [][AppNext]_vars /\ WF_vars(UpdateVideo)

-----------------------------------------------------------------------------
(* SpecResid: calculate_residuals on one fitter, called directly and through *)
(* _scipy_residuals with a trial vector                                      *)

\* generate_profile integrates from [phi, r, z] = [0, 0, 0], so the profile
\* starts at the apex (0, 0); r grows and the flipped z falls.
ProfileSteps == { <<1, 0>>, <<1, -1>>, <<2, -1>> }

Profiles ==
    { [profile_r |-> <<0>> \o [i \in 1 .. Len(q) |-> q[i][1]],
       profile_z |-> <<0>> \o [i \in 1 .. Len(q) |-> q[i][2]]] :
          q \in UNION { SeqsOfLen(ProfileSteps, n) : n \in 1 .. MaxProfilePoints } }

\* The pixels the edge points of SpecResid are drawn from.
EdgePixels == { <<0, 0>>, <<1, 1>>, <<2, 0>>, <<1, 2>> }

EdgeData == UNION { SeqsOfLen(EdgePixels, n) : n \in 0 .. MaxEdgePoints }

\* The points of the transformed curve, when they are whole pixels.
OwnPoints(self, profile) ==
    LET curve == column_stack(transform_profile(self, profile.profile_r, profile.profile_z))
    IN  IF \A j \in 1 .. Len(curve) : curve[j][1] % 5 = 0 /\ curve[j][2] % 5 = 0
        THEN { [j \in 1 .. Len(curve) |-> <<curve[j][1] \div 5, curve[j][2] \div 5>>] }
        ELSE {}

ResidInitialParameters ==
    { [apex_radius |-> R, apex_x |-> 1, apex_y |-> 1, rotation |-> rot,
       bond_number |-> 500000, delta_rho |-> 1, calibration_factor |-> 1] :
          R \in {1, 2}, rot \in {Rot0, RotPlus, RotMinus} }

ResidInit ==
    /\ CropIdle
    /\ SerialIdle
    /\ EdgeIdle
    /\ CalIdle
    /\ AppIdle
    /\ \E profile \in Profiles, ip \in ResidInitialParameters :
          \E edge_data \in EdgeData \cup OwnPoints(YoungLaplaceFitter(<<>>, ip, FALSE), profile) :
             /\ f_self = YoungLaplaceFitter(edge_data, ip, FALSE)
             /\ f_profile = profile
    /\ f_residuals = NoResult
    /\ f_pc = "constructed"
    /\ f_results = NoResult
    /\ f_transformed = NoResult

CalculateResiduals ==
    /\ f_residuals = NoResult
    /\ f_residuals' = [residuals |-> calculate_residuals(f_self, f_profile)]
    /\ UNCHANGED <<f_self, f_profile, f_pc, f_results>>
    /\ UNCHANGED f_transformed
    /\ UNCHANGED <<edgeVars, calVars, appVars, cropVars, serialVars>>

\* A trial of least_squares that moves the apex or the rotation and keeps
\* bond_number, so that generate_profile returns the same profile.
TrialVectors(self) ==
    { [ParamVector(self) EXCEPT !.apex_x = ax, !.rotation = rot] :
          ax \in {1, 2}, rot \in {Rot0, RotPlus} } \ {ParamVector(self)}

ScipyResiduals ==
    /\ f_residuals = NoResult
    /\ \E params \in TrialVectors(f_self) :
          /\ f_self' = scipy_residuals(f_self, params)
          /\ f_residuals' = [residuals |-> calculate_residuals(f_self', f_profile)]
    /\ UNCHANGED <<f_profile, f_pc, f_results>>
    /\ UNCHANGED f_transformed
    /\ UNCHANGED <<edgeVars, calVars, appVars, cropVars, serialVars>>

ResidNext == CalculateResiduals \/ ScipyResiduals

SpecResid == ResidInit /\ [][ResidNext]_vars

-----------------------------------------------------------------------------
(* SpecFit: one fitter from construction through fit_profile to get_results *)

FitInitialParameters ==
    { [apex_radius |-> R, apex_x |-> 1, apex_y |-> 1, rotation |-> rot,
       bond_number |-> bo, delta_rho |-> drho, calibration_factor |-> cf] :
          R \in {0, 1, 2}, rot \in {Rot0, RotSteep},
          bo \in {0, 1, LOWER_BOND_NUMBER, 500000},
          drho \in {0, 1}, cf \in {1, 2} }

FitInit ==
    /\ CropIdle
    /\ SerialIdle
    /\ EdgeIdle
    /\ CalIdle
    /\ AppIdle
    /\ \E ip \in FitInitialParameters, np_scalars \in BOOLEAN :
          f_self = YoungLaplaceFitter(<<>>, ip, np_scalars)
    /\ f_profile = None
    /\ f_residuals = NoResult
    /\ f_pc = "constructed"
    /\ f_results = NoResult
    /\ f_transformed = NoResult

\* fit_profile up to the call of least_squares, which raises ValueError
\* when x0 is outside the bounds.
FitProfileCall ==
    /\ f_pc = "constructed"
    /\ f_results = NoResult
    /\ f_pc' = IF InBounds(ParamVector(f_self)) THEN "fitting" ELSE "raised"
    /\ UNCHANGED <<f_self, f_profile, f_residuals, f_results>>
    /\ UNCHANGED f_transformed
    /\ UNCHANGED <<edgeVars, calVars, appVars, cropVars, serialVars>>

\* The vectors least_squares may hand to the callback: the trust-region
\* method keeps every trial point and every finite-difference point within
\* the bounds; apex_x and apex_y are free.
FitTrialVectors ==
    { [apex_radius |-> R, bond_number |-> bo, apex_x |-> ax, apex_y |-> 1,
       rotation |-> rot] :
          R \in {LOWER_APEX_RADIUS, 3}, bo \in {LOWER_BOND_NUMBER, 500000},
          ax \in {-1, 2}, rot \in {Rot0, RotMinus} }

\* One call of _scipy_residuals by least_squares during the fit.
FitTrial ==
    /\ f_pc = "fitting"
    /\ \E params \in FitTrialVectors : f_self' = scipy_residuals(f_self, params)
    /\ UNCHANGED <<f_profile, f_residuals, f_pc, f_results>>
    /\ UNCHANGED f_transformed
    /\ UNCHANGED <<edgeVars, calVars, appVars, cropVars, serialVars>>

\* least_squares returns a vector within the bounds and fit_profile stores it.
FitProfile ==
    /\ f_pc = "fitting"
    /\ \E result \in FitReturns : f_self' = fit_profile(f_self, result)
    /\ f_pc' = "fitted"
    /\ UNCHANGED <<f_profile, f_residuals, f_results>>
    /\ UNCHANGED f_transformed
    /\ UNCHANGED <<edgeVars, calVars, appVars, cropVars, serialVars>>

GetResults ==
    /\ f_pc \in {"constructed", "fitted"}
    /\ f_results = NoResult
    /\ f_results' = get_results(f_self)
    /\ UNCHANGED <<f_self, f_profile, f_residuals, f_pc>>
    /\ UNCHANGED f_transformed
    /\ UNCHANGED <<edgeVars, calVars, appVars, cropVars, serialVars>>

FitNext == FitProfileCall \/ FitTrial \/ FitProfile \/ GetResults

SpecFit == FitInit /\ [][FitNext]_vars

-----------------------------------------------------------------------------
(* crop_image and CropPopup *)

(* A frame is carried by its shape [w, h].  Crop coordinates are carried in *)
(* half pixels, so that the products of save_and_close with a scale factor  *)
(* of 1.5 are exact: 3 is the coordinate 1.5, 4 is the integer 2.           *)

\* int(v) of Python for the coordinate v2 / 2: truncation toward zero.
int(v2) == IF v2 >= 0 THEN v2 \div 2 ELSE -((-v2) \div 2)

IsIntegerPixel(v2) == v2 % 2 = 0

\* The index numpy uses for a slice bound i on an axis of length n.
slice_index(i, n) ==
    IF i < 0 THEN (IF i + n < 0 THEN 0 ELSE i + n)
    ELSE IF i > n THEN n ELSE i

\* len(a[start:stop]) on an axis of length n.
slice_len(start, stop, n) ==
    IF slice_index(stop, n) > slice_index(start, n)
    THEN slice_index(stop, n) - slice_index(start, n)
    ELSE 0

\* frame[x0:x1, y0:y1]: the two axes exchanged.
crop_image_swapped(frame, crop_params) ==
    [w |-> slice_len(int(crop_params.y_start), int(crop_params.y_end), frame.w),
     h |-> slice_len(int(crop_params.x_start), int(crop_params.x_end), frame.h)]

\* frame[initial_y_crop:y_max, initial_x_crop:x_max]
crop_image(frame, crop_params) ==
    [w |-> slice_len(int(crop_params.x_start), int(crop_params.x_end), frame.w),
     h |-> slice_len(int(crop_params.y_start), int(crop_params.y_end), frame.h)]

IsEmptyArray(img) == img.w = 0 \/ img.h = 0

\* cv2.cvtColor raises cv2.error on an array with no pixels.
cvtColor(img) ==
    IF IsEmptyArray(img)
    THEN [kind |-> "raised", error |-> "cv2.error"]
    ELSE [kind |-> "image", w |-> img.w, h |-> img.h]

\* The first two statements of process_frame_edge: the crop and the
\* conversion to grayscale.  Nothing around them catches an exception.
process_frame_edge_crop(frame, crop_params) ==
    cvtColor(crop_image(frame, crop_params))

FrameShapes == { [w |-> w, h |-> 2] : w \in 2 .. MaxFrameW }

Min(a, b) == IF a <= b THEN a ELSE b

Max(a, b) == IF a >= b THEN a ELSE b

\* CurrentProcessingConfig.__init__: DEFAULT_CROP, brought to the frames
\* of the model (pixels 1..2 by 0..2), in half pixels.
DEFAULT_CROP == [x_start |-> 2, y_start |-> 0, x_end |-> 4, y_end |-> 4]

\* thumbnail((800, 550)) only shrinks: the scale factor pil / display is 1
\* for a small frame and above 1 otherwise; twice the factor, 2 or 3.
PopupScales == {2, 3}

\* CropPopup.__init__
CropPopup(scale2) ==
    [x_start |-> None, y_start |-> None, x_final |-> None, y_final |-> None,
     scale2 |-> scale2]

on_button_press(self, x, y) ==
    [self EXCEPT !.x_start = Some(x), !.y_start = Some(y)]

on_button_release(self, x, y) ==
    [self EXCEPT !.x_final = Some(x), !.y_final = Some(y)]

\* min(None, None) raises TypeError before anything is assigned.
save_and_close_raises(self) == self.x_start = None \/ self.x_final = None

\* The four assignments to processing_config in save_and_close.
save_and_close_crop(self) ==
    [x_start |-> Min(self.x_start.v, self.x_final.v) * self.scale2,
     y_start |-> Min(self.y_start.v, self.y_final.v) * self.scale2,
     x_end   |-> Max(self.x_start.v, self.x_final.v) * self.scale2,
     y_end   |-> Max(self.y_start.v, self.y_final.v) * self.scale2]

\* show_frame after the crop: Image.fromarray, image.width / image.height
\* and image.resize raise on an image with no pixels, and show_frame has a
\* finally but no except.
show_frame_crop(frame, crop_params) ==
    IF IsEmptyArray(crop_image(frame, crop_params))
    THEN [kind |-> "raised", error |-> "show_frame"]
    ELSE [kind |-> "shown", w |-> crop_image(frame, crop_params).w,
                            h |-> crop_image(frame, crop_params).h]

-----------------------------------------------------------------------------
(* SpecCrop: the crop of process_frame_edge on every frame shape and region *)

CropCoords == (-2) .. (2 * MaxCropCoord)

CropRegions ==
    [x_start : CropCoords, y_start : {0, 1, 2}, x_end : CropCoords, y_end : {0, 2, 4, 6}]

CropInit ==
    /\ SerialIdle
    /\ EdgeIdle
    /\ CalIdle
    /\ AppIdle
    /\ FitIdle
    /\ k_frame \in FrameShapes
    /\ k_crop \in CropRegions
    /\ k_popup = None
    /\ k_result = NoResult

CropImage ==
    /\ k_result.kind # "cropped"
    /\ k_result' = [kind |-> "cropped", w |-> crop_image(k_frame, k_crop).w,
                                        h |-> crop_image(k_frame, k_crop).h]
    /\ UNCHANGED <<k_frame, k_crop, k_popup>>
    /\ UNCHANGED <<edgeVars, calVars, appVars, fitVars, serialVars>>

ProcessFrameEdgeCrop ==
    /\ k_popup = None
    /\ k_result.kind \notin {"image", "raised"}
    /\ k_result' = process_frame_edge_crop(k_frame, k_crop)
    /\ UNCHANGED <<k_frame, k_crop, k_popup>>
    /\ UNCHANGED <<edgeVars, calVars, appVars, fitVars, serialVars>>

CropNext == CropImage \/ ProcessFrameEdgeCrop

SpecCrop == CropInit /\ [][CropNext]_vars

-----------------------------------------------------------------------------
(* SpecPopup: the CropPopup handlers and the frame operation that follows   *)

CanvasXs == (-1) .. CanvasMax

CanvasYs == 0 .. CanvasMax

PopupInit ==
    /\ SerialIdle
    /\ EdgeIdle
    /\ CalIdle
    /\ AppIdle
    /\ FitIdle
    /\ k_frame \in FrameShapes
    /\ k_crop = DEFAULT_CROP
    /\ k_popup = None
    /\ k_result = NoResult

OpenCropPopup ==
    /\ k_popup = None
    /\ \E scale2 \in PopupScales : k_popup' = CropPopup(scale2)
    /\ UNCHANGED <<k_frame, k_crop, k_result>>
    /\ UNCHANGED <<edgeVars, calVars, appVars, fitVars, serialVars>>

OnButtonPress ==
    /\ k_popup # None
    /\ \E x \in CanvasXs, y \in CanvasYs : k_popup' = on_button_press(k_popup, x, y)
    /\ UNCHANGED <<k_frame, k_crop, k_result>>
    /\ UNCHANGED <<edgeVars, calVars, appVars, fitVars, serialVars>>

\* A release follows a press.
OnButtonRelease ==
    /\ k_popup # None
    /\ k_popup.x_start # None
    /\ \E x \in CanvasXs, y \in CanvasYs : k_popup' = on_button_release(k_popup, x, y)
    /\ UNCHANGED <<k_frame, k_crop, k_result>>
    /\ UNCHANGED <<edgeVars, calVars, appVars, fitVars, serialVars>>

SaveAndClose ==
    /\ k_popup # None
    /\ IF save_and_close_raises(k_popup)
       THEN /\ k_result' = [kind |-> "raised", error |-> "TypeError"]
            /\ UNCHANGED <<k_crop, k_popup>>
       ELSE /\ k_crop' = save_and_close_crop(k_popup)
            /\ k_result' = show_frame_crop(k_frame, save_and_close_crop(k_popup))
            /\ k_popup' = IF show_frame_crop(k_frame, save_and_close_crop(k_popup)).kind = "raised"
                          THEN k_popup ELSE None
    /\ UNCHANGED k_frame
    /\ UNCHANGED <<edgeVars, calVars, appVars, fitVars, serialVars>>

PopupProcessFrame ==
    /\ k_popup = None
    /\ k_result' = process_frame_edge_crop(k_frame, k_crop)
    /\ UNCHANGED <<k_frame, k_crop, k_popup>>
    /\ UNCHANGED <<edgeVars, calVars, appVars, fitVars, serialVars>>

PopupNext ==
    \/ OpenCropPopup
    \/ OnButtonPress
    \/ OnButtonRelease
    \/ SaveAndClose
    \/ PopupProcessFrame

SpecPopup == PopupInit /\ [][PopupNext]_vars

-----------------------------------------------------------------------------
(* SpecTransform: transform_profile on every small profile and parameter set *)

TransformInitialParameters ==
    { [apex_radius |-> R, apex_x |-> ax, apex_y |-> ay, rotation |-> rot,
       bond_number |-> 500000, delta_rho |-> 1, calibration_factor |-> 1] :
          R \in {1, 2}, ax \in {0, 1}, ay \in {-1, 0}, rot \in {Rot0, RotPlus} }

TransformInit ==
    /\ CropIdle
    /\ SerialIdle
    /\ EdgeIdle
    /\ CalIdle
    /\ AppIdle
    /\ \E profile \in Profiles, ip \in TransformInitialParameters :
          /\ f_self = YoungLaplaceFitter(<<>>, ip, FALSE)
          /\ f_profile = profile
    /\ f_residuals = NoResult
    /\ f_pc = "constructed"
    /\ f_results = NoResult
    /\ f_transformed = NoResult

TransformProfile ==
    /\ f_transformed = NoResult
    /\ f_transformed' =
           [r5 |-> transform_profile(f_self, f_profile.profile_r, f_profile.profile_z).r5,
            z5 |-> transform_profile(f_self, f_profile.profile_r, f_profile.profile_z).z5]
    /\ UNCHANGED <<f_self, f_profile, f_residuals, f_pc, f_results>>
    /\ UNCHANGED <<edgeVars, calVars, appVars, cropVars, serialVars>>

TransformNext == TransformProfile

SpecTransform == TransformInit /\ [][TransformNext]_vars

-----------------------------------------------------------------------------
(* SpecRepeat: process_frame_edge invoked several times in a row *)

\* The Canny outputs of the frames of SpecRepeat: cv2's calls are functions
\* of the frame and the parameters, so one frame has one Canny output.
RepeatMasks ==
    { BlankMask, RowMask,
      [w |-> 3, h |-> 2, px |-> [k \in 0 .. 5 |-> IF k \in {0, 1, 5} THEN 255 ELSE 0]] }

CalibrationRadii == { None, Some(0), Some(3) }

RepeatInit ==
    /\ CropIdle
    /\ SerialIdle
    /\ CalIdle
    /\ AppIdle
    /\ FitIdle
    /\ EdgeIdle

ProcessFrameEdgeAgain ==
    /\ Len(e_history) < MaxCalls
    /\ \E edges \in RepeatMasks, min_object_size \in {1, 2, 3}, min_size_mult \in {33, 100},
          calibration_radius \in CalibrationRadii :
          e_history' = Append(e_history,
              [edges |-> edges, min_object_size |-> min_object_size,
               min_size_mult |-> min_size_mult, calibration_radius |-> calibration_radius,
               result |-> process_frame_edge_kw(edges, min_object_size, min_size_mult,
                                                TRUE, calibration_radius)])
    /\ UNCHANGED <<e_edges, e_min_object_size, e_min_size_mult, e_adaptive, e_result>>
    /\ UNCHANGED <<calVars, appVars, fitVars, cropVars, serialVars>>

RepeatNext == ProcessFrameEdgeAgain

SpecRepeat == RepeatInit /\ [][RepeatNext]_vars

-----------------------------------------------------------------------------
(* SpecSerial: one App with its SerialManager, the reader thread and the    *)
(* main thread interleaved step by step                                     *)

\* What serial_connection.readline() may return as bytes: "" on a timeout,
\* a line of text, a line of blanks, a line that is not UTF-8.
RawLines == { "", "a\n", " b\r\n", " \n", "\\xff\n" }

\* readline().decode("utf-8").strip(): UnicodeDecodeError on bytes that are
\* not UTF-8, otherwise the text without the surrounding white space.
decode_strip(raw) ==
    CASE raw = "a\n"     -> [raised |-> FALSE, line |-> "a"]
      [] raw = " b\r\n"  -> [raised |-> FALSE, line |-> "b"]
      [] raw = "\\xff\n" -> [raised |-> TRUE, line |-> ""]
      [] OTHER           -> [raised |-> FALSE, line |-> ""]

\* queue.Queue.get of a LifoQueue: the line put last.
read_line_lifo(read_queue) ==
    IF read_queue = <<>>
    THEN [line |-> None, read_queue |-> read_queue]
    ELSE [line |-> Some(read_queue[Len(read_queue)]),
          read_queue |-> SubSeq(read_queue, 1, Len(read_queue) - 1)]

\* read_line: queue.Queue.get(block=True, timeout) takes the line put first,
\* and queue.Empty after the timeout becomes None.
read_line(read_queue) ==
    IF read_queue = <<>>
    THEN [line |-> None, read_queue |-> read_queue]
    ELSE [line |-> Some(Head(read_queue)), read_queue |-> Tail(read_queue)]

ReaderAlive(reader) == reader \in {"check", "read", "put"}

\* disconnect without reader_thread.join().
join_skipped(reader) == TRUE

\* reader_thread.join() returns once the thread has terminated.
join_returns(reader) == ~ReaderAlive(reader)

PortStreams == UNION { SeqsOfLen(RawLines \ {""}, n) : n \in 0 .. MaxLines }

SerialInit ==
    /\ CropIdle
    /\ EdgeIdle
    /\ CalIdle
    /\ AppIdle
    /\ FitIdle
    /\ s_open = FALSE
    /\ s_is_running = FALSE
    /\ s_reader = "none"
    /\ s_line = None
    /\ s_port \in PortStreams
    /\ s_read_queue = <<>>
    /\ s_main = "none"
    /\ s_orphans = 0
    /\ s_polls = 0
    /\ s_read = <<>>
    /\ s_delivered = <<>>
    /\ s_returned = FALSE

\* App.connect_serial: a new SerialManager replaces the old one, which is
\* never disconnected; connect() opens the port (or fails on
\* SerialException) and starts the reader, which may have stopped on a
\* SerialException already when is_running is tested; check_serial_queue
\* is called when is_running.
ConnectSerial ==
    /\ s_main \in {"none", "idle"}
    /\ s_orphans + s_polls < MaxConnects
    /\ s_orphans' = s_orphans + (IF ReaderAlive(s_reader) THEN 1 ELSE 0)
    /\ \E opened \in BOOLEAN, stopped \in BOOLEAN :
          /\ stopped => opened
          /\ s_open' = opened
          /\ s_is_running' = (opened /\ ~stopped)
          /\ s_reader' = IF stopped THEN "dead" ELSE IF opened THEN "check" ELSE "none"
          /\ s_polls' = s_polls + (IF opened /\ ~stopped THEN 1 ELSE 0)
    /\ s_line' = None
    /\ s_read_queue' = <<>>
    /\ s_read' = <<>>
    /\ s_delivered' = <<>>
    /\ s_returned' = FALSE
    /\ s_main' = "idle"
    /\ UNCHANGED s_port
    /\ UNCHANGED <<edgeVars, calVars, appVars, fitVars, cropVars>>

\* SerialManager.connect on the manager the App holds.
Connect ==
    /\ s_main = "idle"
    /\ IF s_open
       THEN UNCHANGED <<s_open, s_is_running, s_reader, s_orphans, s_returned>>
       ELSE \E opened \in BOOLEAN :
               /\ s_open' = opened
               /\ s_is_running' = (opened \/ s_is_running)
               /\ s_reader' = IF opened THEN "check" ELSE s_reader
               /\ s_orphans' = s_orphans
                     + (IF opened /\ ReaderAlive(s_reader) THEN 1 ELSE 0)
               /\ s_returned' = (s_returned /\ ~opened)
    /\ UNCHANGED <<s_line, s_port, s_read_queue, s_main, s_polls, s_read, s_delivered>>
    /\ UNCHANGED <<edgeVars, calVars, appVars, fitVars, cropVars>>

\* read_loop: the test of the while.
ReaderCheck ==
    /\ s_reader = "check"
    /\ s_reader' = IF s_is_running THEN "read" ELSE "dead"
    /\ UNCHANGED <<s_open, s_is_running, s_line, s_port, s_read_queue, s_main,
                   s_orphans, s_polls, s_read, s_delivered, s_returned>>
    /\ UNCHANGED <<edgeVars, calVars, appVars, fitVars, cropVars>>

\* read_loop: readline, decode, strip.  readline returns within the timeout
\* of 1 s; SerialException (also on a port that is closed) stops the thread;
\* any other exception is printed and the loop goes on.
ReaderRead ==
    /\ s_reader = "read"
    /\ \/ /\ s_is_running' = FALSE
          /\ s_reader' = "dead"
          /\ UNCHANGED <<s_line, s_port, s_read>>
       \/ /\ s_open
          /\ \E raw \in {IF s_port = <<>> THEN "" ELSE Head(s_port)} :
                /\ s_port' = IF s_port = <<>> THEN s_port ELSE Tail(s_port)
                /\ s_read' = IF raw = "" THEN s_read ELSE Append(s_read, raw)
                /\ s_line' = IF decode_strip(raw).raised \/ decode_strip(raw).line = ""
                             THEN None ELSE Some(decode_strip(raw).line)
                /\ s_reader' = IF decode_strip(raw).raised \/ decode_strip(raw).line = ""
                               THEN "check" ELSE "put"
          /\ UNCHANGED s_is_running
    /\ UNCHANGED <<s_open, s_read_queue, s_main, s_orphans, s_polls, s_delivered, s_returned>>
    /\ UNCHANGED <<edgeVars, calVars, appVars, fitVars, cropVars>>

\* read_loop: read_queue.put(line), then the sleep.
ReaderPut ==
    /\ s_reader = "put"
    /\ s_read_queue' = Append(s_read_queue, s_line.v)
    /\ s_line' = None
    /\ s_reader' = "check"
    /\ UNCHANGED <<s_open, s_is_running, s_port, s_main, s_orphans, s_polls,
                   s_read, s_delivered, s_returned>>
    /\ UNCHANGED <<edgeVars, calVars, appVars, fitVars, cropVars>>

ReaderStep == ReaderCheck \/ ReaderRead \/ ReaderPut

\* App.check_serial_queue: read_line(timeout=0.1), then after(100, ...).
CheckSerialQueue ==
    /\ s_main = "idle"
    /\ s_polls > 0
    /\ s_read_queue # <<>>
    /\ s_read_queue' = read_line(s_read_queue).read_queue
    /\ s_delivered' = Append(s_delivered, read_line(s_read_queue).line.v)
    /\ UNCHANGED <<s_open, s_is_running, s_reader, s_line, s_port, s_main,
                   s_orphans, s_polls, s_read, s_returned>>
    /\ UNCHANGED <<edgeVars, calVars, appVars, fitVars, cropVars>>

\* disconnect up to the join.
Disconnect ==
    /\ s_main = "idle"
    /\ s_open
    /\ s_is_running' = FALSE
    /\ s_main' = "join"
    /\ UNCHANGED <<s_open, s_reader, s_line, s_port, s_read_queue, s_orphans,
                   s_polls, s_read, s_delivered, s_returned>>
    /\ UNCHANGED <<edgeVars, calVars, appVars, fitVars, cropVars>>

\* disconnect from the return of the join on: the port is closed.
DisconnectJoin ==
    /\ s_main = "join"
    /\ join_returns(s_reader)
    /\ s_open' = FALSE
    /\ s_main' = "idle"
    /\ s_returned' = TRUE
    /\ UNCHANGED <<s_is_running, s_reader, s_line, s_port, s_read_queue, s_orphans,
                   s_polls, s_read, s_delivered>>
    /\ UNCHANGED <<edgeVars, calVars, appVars, fitVars, cropVars>>

SerialNext ==
    \/ ConnectSerial
    \/ Connect
    \/ ReaderCheck
    \/ ReaderRead
    \/ ReaderPut
    \/ CheckSerialQueue
    \/ Disconnect
    \/ DisconnectJoin

SpecSerial == SerialInit /\ [][SerialNext]_vars

\* The scheduler runs the reader thread, and the main thread inside
\* disconnect, whenever they can take a step.
SpecSerialLive ==
    SerialInit /\ [][SerialNext]_vars /\ WF_vars(ReaderStep) /\ WF_vars(DisconnectJoin)

-----------------------------------------------------------------------------
(* Statements *)

\* The component of pixel k in a uint8 mask, for the statements below.
MaskComponent(img, k) == Grow(img, Nonzero(img), {k})

PointSet(points) == { points[i] : i \in 1 .. Len(points) }

\* C1: the points left after the adaptive second pass are a subset of the
\* first-pass points, so num_edge_points <= the first-pass count: cleaning
\* never adds a foreground pixel.
C1_SecondPassSubset ==
    e_result.kind = "dict" =>
        /\ Nonzero(e_result.binary_edge_image) \subseteq Nonzero(e_result.clean_pass1)
        /\ PointSet(e_result.edge_points) \subseteq PointSet(e_result.pass1_points)
        /\ e_result.num_edge_points <= Len(e_result.pass1_points)

\* A call whose second pass removed some, but not all, first-pass points.
C1_Witness ==
    /\ e_result.kind = "dict"
    /\ e_result.num_edge_points > 0
    /\ e_result.num_edge_points < Len(e_result.pass1_points)

\* C2: the second-pass threshold is floor(N1 * min_size_mult); a first-pass
\* component with fewer pixels is absent from the final mask, one with at
\* least that many pixels is kept whole, and nothing else is foreground.
C2_AdaptiveThreshold ==
    e_result.kind = "dict" =>
        LET pass1 == e_result.clean_pass1
            N1 == Cardinality(Nonzero(pass1))
            threshold == (N1 * e_min_size_mult) \div MIN_MULT_STEPS
        IN  /\ e_result.min_size_adapted = threshold
            /\ \A k \in Pixels(pass1) :
                  e_result.binary_edge_image.px[k] =
                      IF /\ pass1.px[k] # 0
                         /\ Cardinality(MaskComponent(pass1, k)) >= threshold
                      THEN 255 ELSE 0

\* A call that keeps a component of exactly the threshold size and drops a
\* smaller one.
C2_Witness ==
    /\ e_result.kind = "dict"
    /\ \E a, b \in Nonzero(e_result.clean_pass1) :
          /\ Cardinality(MaskComponent(e_result.clean_pass1, a)) = e_result.min_size_adapted
          /\ e_result.binary_edge_image.px[a] = 255
          /\ Cardinality(MaskComponent(e_result.clean_pass1, b)) < e_result.min_size_adapted
          /\ e_result.binary_edge_image.px[b] = 0

\* C4 (as claimed): on a non-empty point set the centre is the mean of the
\* x and of the y coordinates, every distance is the Euclidean distance
\* sqrt((x - center_x)^2 + (y - center_y)^2) of the point to the centre, and
\* the radius is the mean of these distances.  Each distance the code takes is
\* at most the Euclidean one, so the two means agree exactly when the
\* distances agree point by point; roots are compared by their radicands.
C4_MeanEuclideanRadius ==
    (c_result.kind = "returned" /\ c_result.calibration_results.num_edge_points > 0) =>
        LET pts == c_result.calibration_results.edge_points
            n == Len(pts)
            sx == SumSeq(Xs(pts))
            sy == SumSeq(Ys(pts))
        IN  /\ c_result.calibration_center_x = [num |-> sx, den |-> n]
            /\ c_result.calibration_center_y = [num |-> sy, den |-> n]
            /\ Len(c_result.distances_from_center) = n
            /\ \A i \in 1 .. n :
                  c_result.distances_from_center[i].radicand =
                      [num |-> (n * pts[i][1] - sx) * (n * pts[i][1] - sx)
                                 + (n * pts[i][2] - sy) * (n * pts[i][2] - sy),
                       den |-> n * n]
            /\ c_result.calibration_radius = [mean_of |-> c_result.distances_from_center]

\* C7 (as claimed): calibrate passes adaptive_threshold = False, so the
\* calibration point set is the first-pass cleaned point set: every component
\* of at least CALIBRATION_MIN_OBJECT_SIZE pixels, whatever min_size_mult is.
C7_CalibrationSkipsSecondPass ==
    c_result.kind = "returned" =>
        c_result.calibration_results.edge_points =
            extract_edge_points(bwareaopen(c_edges, CALIBRATION_MIN_OBJECT_SIZE))

\* C3 (as claimed): a frame whose edge extraction yields fewer than
\* MIN_EDGE_POINTS points is skipped, so no record of such a frame is in
\* analysis_results.
C3_SparseFramesSkipped ==
    \A i \in 1 .. Len(analysis_results) :
        analysis_results[i].num_edge_points >= MIN_EDGE_POINTS

\* C5 (as claimed): a calibration that yields zero edge points leaves the App
\* uncalibrated, so whenever is_calibrated holds the last calibration of the
\* loaded video returned a non-empty point set.
C5_EmptyCalibrationStaysUncalibrated ==
    is_calibrated =>
        /\ last_calibration.kind = "returned"
        /\ last_calibration.calibration_results.num_edge_points > 0

\* C6 (as claimed): an analysis is running only if the loaded video is
\* calibrated.
C6_PlayingOnlyIfCalibrated == is_playing => is_calibrated

\* C9 (as claimed): when least_squares ends without success, get_results
\* gives is_converged = false, iterations = nfev and the five parameters of
\* result.x, and the record the analysis loop emits for the frame carries
\* them.
C9_UnconvergedFitEmitted ==
    (last_fit # None /\ ~last_fit.returned.success) =>
        /\ last_fit.results.kind = "dict"
        /\ last_fit.results.is_converged = FALSE
        /\ last_fit.results.iterations = last_fit.returned.nfev
        /\ last_fit.results.apex_radius_pixels = last_fit.returned.x.apex_radius
        /\ last_fit.results.bond_number = last_fit.returned.x.bond_number
        /\ last_fit.results.apex_x = last_fit.returned.x.apex_x
        /\ last_fit.results.apex_y = last_fit.returned.x.apex_y
        /\ last_fit.results.rotation = last_fit.returned.x.rotation
        /\ \E i \in 1 .. Len(analysis_results) :
              /\ analysis_results[i].frame_number = last_fit.frame
              /\ {"is_converged", "iterations"} \subseteq DOMAIN analysis_results[i]
              /\ analysis_results[i].is_converged = FALSE
              /\ analysis_results[i].iterations = last_fit.returned.nfev

\* The part of C9 that get_results decides.
C9_GetResultsPart ==
    (last_fit # None /\ ~last_fit.returned.success) =>
        /\ last_fit.results.kind = "dict"
        /\ last_fit.results.is_converged = FALSE
        /\ last_fit.results.iterations = last_fit.returned.nfev
        /\ last_fit.results.apex_radius_pixels = last_fit.returned.x.apex_radius
        /\ last_fit.results.bond_number = last_fit.returned.x.bond_number
        /\ last_fit.results.rotation = last_fit.returned.x.rotation
        /\ \E i \in 1 .. Len(analysis_results) :
              analysis_results[i].frame_number = last_fit.frame

\* 25 * (squared Euclidean distance) between the pixel point p and the curve
\* point c5, which is in fifths of a pixel.
SquaredDistance25(p, c5) ==
    (5 * p[1] - c5[1]) * (5 * p[1] - c5[1]) + (5 * p[2] - c5[2]) * (5 * p[2] - c5[2])

CurrentCurve ==
    column_stack(transform_profile(f_self, f_profile.profile_r, f_profile.profile_z))

\* C8: calculate_residuals returns one entry per edge point, in edge-point
\* order; entry i is the least Euclidean distance from edge point i to a
\* point of the current transformed curve, is never negative, and is 0
\* exactly when edge point i is a point of the curve.
C8_ResidualsAreNearestDistances ==
    f_residuals # NoResult =>
        LET residuals == f_residuals.residuals
            edge_data == f_self.edge_data
        IN  /\ Len(residuals) = Len(edge_data)
            /\ \A i \in 1 .. Len(edge_data) :
                  /\ \E j \in 1 .. Len(CurrentCurve) :
                        residuals[i].radicand25 =
                            SquaredDistance25(edge_data[i], CurrentCurve[j])
                  /\ \A j \in 1 .. Len(CurrentCurve) :
                        residuals[i].radicand25 <=
                            SquaredDistance25(edge_data[i], CurrentCurve[j])
                  /\ residuals[i].radicand25 >= 0
                  /\ residuals[i].radicand25 = 0 <=>
                        \E j \in 1 .. Len(CurrentCurve) :
                            /\ 5 * edge_data[i][1] = CurrentCurve[j][1]
                            /\ 5 * edge_data[i][2] = CurrentCurve[j][2]

\* A rotated curve measured against two edge points, one on it and one off it.
C8_Witness ==
    /\ f_residuals # NoResult
    /\ f_self.rotation # Rot0
    /\ Len(f_self.edge_data) = 2
    /\ Len(CurrentCurve) > 2
    /\ f_residuals.residuals[1].radicand25 = 0
    /\ f_residuals.residuals[2].radicand25 > 0

\* A curve measured against its own points: every residual is 0.
C8_OwnPointsWitness ==
    /\ f_residuals # NoResult
    /\ Len(f_self.edge_data) = Len(CurrentCurve)
    /\ \A i \in 1 .. Len(CurrentCurve) :
          /\ 5 * f_self.edge_data[i][1] = CurrentCurve[i][1]
          /\ 5 * f_self.edge_data[i][2] = CurrentCurve[i][2]
          /\ f_residuals.residuals[i].radicand25 = 0

\* C10 (as claimed): for a bond_number at or near zero (0 or 1e-6, which is 1
\* in the units of the model) get_results does not
\* raise, reports the surface tension as invalid (NaN or flagged) and not as
\* a number, and returns every other field.
C10_NearZeroBondGuarded ==
    (f_results # NoResult /\ f_self.bond_number <= 1) =>
        /\ f_results.kind = "dict"
        /\ f_results.surface_tension.kind \in {"nan", "flagged"}
        /\ {"volume", "apex_radius_pixels", "apex_x", "apex_y", "rotation",
            "is_converged", "iterations"} \subseteq DOMAIN f_results

\* C11 (as claimed): during an analysis run the frame_number values appended
\* to analysis_results are strictly increasing, whatever slider seeks come
\* between the update_video callbacks.
C11_FrameNumbersIncrease ==
    \A i \in 1 .. Len(analysis_results) - 1 :
        analysis_results[i].frame_number < analysis_results[i + 1].frame_number

\* C12 (as claimed): each time update_video invokes the edge-extraction
\* pipeline, the parameters the pipeline uses (here min_object_size and
\* min_size_mult) equal the values the live processing_config holds at that
\* moment.
C12_PipelineUsesLiveConfig ==
    last_pipeline # None =>
        /\ last_pipeline.kwargs.min_object_size = last_pipeline.live.min_object_size
        /\ last_pipeline.kwargs.min_size_mult = last_pipeline.live.min_size_mult

\* The part of C12 that holds: min_object_size is read from the live
\* processing_config at the call.
C12_MinObjectSizeIsLive ==
    last_pipeline # None =>
        last_pipeline.kwargs.min_object_size = last_pipeline.live.min_object_size

\* C13 (as claimed): the initial guess of a frame that follows a fitted frame
\* is warm-started from that frame's fitted result: the parameters
\* update_video sets itself (bond_number, rotation) are those of the previous
\* fit.
C13_WarmStartFromPreviousFit ==
    (last_fit # None /\ last_fit.previous # None) =>
        /\ last_fit.initial.bond_number = last_fit.previous.results.bond_number
        /\ last_fit.initial.rotation = last_fit.previous.results.rotation

\* What the code does instead: every fit starts from rotation 0 and the
\* bond_number of processing_config.
C13_GuessFromConfig ==
    last_fit # None =>
        /\ last_fit.initial.bond_number = processing_config.bond_number
        /\ last_fit.initial.rotation = Rot0

\* The live crop region is a CropRegion of the specification: integer pixel
\* bounds with x_start < x_end and y_start < y_end.
IsCropRegion(c) ==
    /\ IsIntegerPixel(c.x_start) /\ IsIntegerPixel(c.x_end)
    /\ IsIntegerPixel(c.y_start) /\ IsIntegerPixel(c.y_end)
    /\ c.x_start < c.x_end
    /\ c.y_start < c.y_end

WithinFrame(c, frame) ==
    /\ 0 <= c.x_start /\ c.x_end <= 2 * frame.w
    /\ 0 <= c.y_start /\ c.y_end <= 2 * frame.h

\* C14: when the CropRegion lies outside the frame bounds, no exception
\* propagates out of the crop of process_frame_edge.
C14_OutOfBoundsCropNotFatal ==
    (/\ k_result.kind \in {"image", "raised"}
     /\ IsCropRegion(k_crop)
     /\ ~WithinFrame(k_crop, k_frame))
    => k_result.kind # "raised"

\* C14, the part that holds: a region that does not lie within the frame
\* is never reported as an empty or None result; the crop either raises or
\* goes on with the pixels that are left.
C14_NoEmptyResult ==
    k_result.kind \in {"image", "raised"}
    => (k_result.kind = "image" => k_result.w > 0 /\ k_result.h > 0)

\* C15 as stated: for every CropRegion with x_start < x_end and
\* y_start < y_end, crop_image returns a sub-image of width x_end - x_start
\* and height y_end - y_start.
C15_CropDimensions ==
    (k_result.kind = "cropped" /\ IsCropRegion(k_crop))
    => /\ 2 * k_result.w = k_crop.x_end - k_crop.x_start
       /\ 2 * k_result.h = k_crop.y_end - k_crop.y_start

\* C15, amended: for every CropRegion with x_start < x_end and
\* y_start < y_end that lies within the frame (0 <= x_start, x_end <= frame
\* width, 0 <= y_start, y_end <= frame height), crop_image returns a
\* sub-image of width x_end - x_start and height y_end - y_start.
C15_CropDimensionsWithinFrame ==
    (/\ k_result.kind = "cropped"
     /\ IsCropRegion(k_crop)
     /\ WithinFrame(k_crop, k_frame))
    => /\ 2 * k_result.w = k_crop.x_end - k_crop.x_start
       /\ 2 * k_result.h = k_crop.y_end - k_crop.y_start

\* A crop of a region inside the frame that leaves out a part of it in
\* both directions.
C15_Witness ==
    /\ k_result.kind = "cropped"
    /\ IsCropRegion(k_crop)
    /\ WithinFrame(k_crop, k_frame)
    /\ k_crop.x_start > 0
    /\ k_crop.y_start > 0
    /\ k_result.w = 2
    /\ k_result.h = 1

\* C19: in every reachable state the live CropRegion of processing_config
\* is made of integer pixel bounds with x_start < x_end and
\* y_start < y_end, whatever the mouse positions committed by
\* CropPopup.save_and_close.
C19_LiveCropRegionValid == IsCropRegion(k_crop)

\* C19, the part that holds: Save with no drag at all leaves the live
\* region as it was, because save_and_close raises before it assigns.
C19_SaveWithoutDragKeepsRegion ==
    [][(k_popup # None /\ save_and_close_raises(k_popup) /\ k_result' # k_result)
       => k_crop' = k_crop]_vars

\* C16: a calibration frame that cannot be read (ret = false) is not fatal:
\* calibrate logs the failure and attempts no edge extraction on the missing
\* frame, so no exception leaves it.
C16_UnreadableFrameNotFatal ==
    (c_result # NoResult /\ ~c_ret) => c_result.kind # "raised"

\* C16, the part that holds: update_video on a frame that cannot be read
\* appends nothing, runs no edge extraction and moves the slider to the
\* next frame.
C16_UpdateVideoSkipsUnreadable ==
    [][(/\ after_update_video > 0
        /\ is_playing
        /\ video_capture # None
        /\ video_slider.value < num_frames - 1
        /\ ~video_read(video_capture, video_slider.value).ret
        /\ user_events' = user_events
        /\ video_slider' # video_slider)
       => /\ video_slider'.value = video_slider.value + 1
          /\ analysis_results' = analysis_results
          /\ last_pipeline' = last_pipeline]_vars

\* C17: fit_profile never raises, whatever the initial guess: also for a
\* guess outside the bounds of the optimizer (apex_radius below 1,
\* bond_number below 0.001, |rotation| above pi/4) it returns and a result
\* is produced.
C17_FitProfileNeverRaises == f_pc # "raised"

\* C17, the part that holds: a guess within the bounds never raises.
C17_FeasibleGuessFits ==
    [][(f_pc = "constructed" /\ InBounds(ParamVector(f_self)) /\ f_pc' # f_pc)
       => f_pc' = "fitting"]_vars

\* C18: after fit_profile returns, the stored parameters satisfy
\* apex_radius >= 1, bond_number >= 0.001 and -pi/4 <= rotation <= pi/4,
\* and so does every trial vector the residual callback writes into the
\* fitter during the fit; apex_x and apex_y are not constrained.
C18_StoredParametersInBounds ==
    f_pc \in {"fitting", "fitted"} =>
        /\ f_self.apex_radius >= LOWER_APEX_RADIUS
        /\ f_self.bond_number >= LOWER_BOND_NUMBER
        /\ RotationInBounds(f_self.rotation)

\* A fit has returned with the rotation away from 0 and apex_y at 0, after
\* a guess from which each of these differed.
C18_Witness ==
    /\ f_pc = "fitted"
    /\ f_self.rotation = RotPlus
    /\ f_self.apex_y = 0
    /\ f_self.bond_number = LOWER_BOND_NUMBER

\* A trial vector with a negative apex_x has been written during the fit.
C18_TrialWitness ==
    /\ f_pc = "fitting"
    /\ f_self.apex_x = -1
    /\ f_self.rotation = RotMinus

\* C20: transform_profile with rotation = 0, apex_x = 0, apex_y = 0 and
\* apex_radius = 1 reproduces the raw profile: the last n of the 2n - 1
\* output points equal the n input points (r, z), one by one and in order.
\* (The output is carried times 5.)
C20_IdentityTransformReproducesProfile ==
    (/\ f_transformed # NoResult
     /\ f_self.rotation = Rot0
     /\ f_self.apex_x = 0
     /\ f_self.apex_y = 0
     /\ f_self.apex_radius = 1)
    => /\ Len(f_transformed.r5) = 2 * Len(f_profile.profile_r) - 1
       /\ Len(f_transformed.z5) = 2 * Len(f_profile.profile_z) - 1
       /\ \A i \in 1 .. Len(f_profile.profile_r) :
             /\ f_transformed.r5[Len(f_profile.profile_r) - 1 + i] = 5 * f_profile.profile_r[i]
             /\ f_transformed.z5[Len(f_profile.profile_z) - 1 + i] = 5 * f_profile.profile_z[i]

\* An identity transform of a profile of three points that leaves the axis.
C20_Witness ==
    /\ f_transformed # NoResult
    /\ f_self.rotation = Rot0
    /\ f_self.apex_x = 0
    /\ f_self.apex_y = 0
    /\ f_self.apex_radius = 1
    /\ f_profile.profile_r = <<0, 1, 2>>
    /\ f_profile.profile_z = <<0, -1, -1>>
    /\ Len(f_transformed.r5) = 5

\* The point (r, z) scaled by apex_radius, then rotated by rotation, then
\* translated by (apex_x, apex_y), times 5.
ScaledRotatedTranslated(self, r, z) ==
    <<(r * self.apex_radius) * self.rotation.cos5
        - (z * self.apex_radius) * self.rotation.sin5 + 5 * self.apex_x,
      (r * self.apex_radius) * self.rotation.sin5
        + (z * self.apex_radius) * self.rotation.cos5 + 5 * self.apex_y>>

\* Point j of what transform_profile returned.
TransformedPoint(j) == <<f_transformed.r5[j], f_transformed.z5[j]>>

\* C21: for a one-sided profile of n points that starts at the apex (0, 0),
\* transform_profile returns exactly 2n - 1 points: the mirrored left half
\* (r negated, z kept, order reversed, apex left out) and then the given
\* half, each point scaled, then rotated, then translated; the apex occurs
\* once, at index n - 1 (counted from 0), and is mapped to (apex_x, apex_y);
\* the call leaves the fitter's parameters and the input arrays as they were.
C21_TransformProfileStructure ==
    [][(f_transformed = NoResult /\ f_transformed' # NoResult)
       => /\ f_self' = f_self
          /\ f_profile' = f_profile
          /\ Len(f_transformed'.r5) = 2 * Len(f_profile.profile_r) - 1
          /\ Len(f_transformed'.z5) = 2 * Len(f_profile.profile_r) - 1
          /\ \A i \in 1 .. Len(f_profile.profile_r) - 1 :
                <<f_transformed'.r5[i], f_transformed'.z5[i]>> =
                    ScaledRotatedTranslated(
                        f_self,
                        -f_profile.profile_r[Len(f_profile.profile_r) + 1 - i],
                        f_profile.profile_z[Len(f_profile.profile_r) + 1 - i])
          /\ \A i \in 1 .. Len(f_profile.profile_r) :
                <<f_transformed'.r5[Len(f_profile.profile_r) - 1 + i],
                  f_transformed'.z5[Len(f_profile.profile_r) - 1 + i]>> =
                    ScaledRotatedTranslated(f_self, f_profile.profile_r[i],
                                            f_profile.profile_z[i])
          /\ \A j \in 1 .. Len(f_transformed'.r5) :
                (<<f_transformed'.r5[j], f_transformed'.z5[j]>> =
                     <<5 * f_self.apex_x, 5 * f_self.apex_y>>)
                <=> j = Len(f_profile.profile_r)]_vars

\* A profile of three points has been transformed with a scale of 2, a
\* rotation away from 0 and an apex away from the origin: five points, the
\* apex in the middle.
C21_Witness ==
    /\ f_transformed # NoResult
    /\ f_self.apex_radius = 2
    /\ f_self.rotation = RotPlus
    /\ f_self.apex_x = 1
    /\ f_self.apex_y = -1
    /\ Len(f_profile.profile_r) = 3
    /\ Len(f_transformed.r5) = 5
    /\ TransformedPoint(3) = <<5, -5>>
    /\ TransformedPoint(1) # TransformedPoint(5)

\* C22: edge extraction is deterministic and depends only on the image and
\* the edge parameters: two invocations of process_frame_edge with the same
\* frame and parameters give the same edge_points and num_edge_points,
\* whatever was processed before and whatever calibration_radius is passed.
C22_EdgeExtractionDeterministic ==
    \A i \in 1 .. Len(e_history), j \in 1 .. Len(e_history) :
        (/\ e_history[i].edges = e_history[j].edges
         /\ e_history[i].min_object_size = e_history[j].min_object_size
         /\ e_history[i].min_size_mult = e_history[j].min_size_mult)
        => /\ e_history[i].result.edge_points = e_history[j].result.edge_points
           /\ e_history[i].result.num_edge_points = e_history[j].result.num_edge_points

\* The same frame has been processed twice with the same parameters, once
\* without and once with a calibration_radius, and edge points were found.
C22_Witness ==
    /\ Len(e_history) = 2
    /\ e_history[1].edges = e_history[2].edges
    /\ e_history[1].min_object_size = e_history[2].min_object_size
    /\ e_history[1].min_size_mult = e_history[2].min_size_mult
    /\ e_history[1].calibration_radius = None
    /\ e_history[2].calibration_radius = Some(3)
    /\ e_history[2].result.num_edge_points > 0

\* The neighbourhood MATLAB's bwareaopen uses by default for a 2-D image:
\* the 8 pixels around a pixel, diagonal ones included.
Adjacent8(img, a, b) ==
    /\ a # b
    /\ (Row(img, a) - Row(img, b)) \in {-1, 0, 1}
    /\ (Col(img, a) - Col(img, b)) \in {-1, 0, 1}

RECURSIVE Grow8(_, _, _)
Grow8(img, S, C) ==
    LET N == { q \in S \ C : \E c \in C : Adjacent8(img, c, q) }
    IN  IF N = {} THEN C ELSE Grow8(img, S, C \cup N)

\* MATLAB's bwareaopen(BW, P) with the default connectivity, on a 0/255 image.
MatlabBwareaopen(img, P) ==
    [img EXCEPT !.px = [k \in Pixels(img) |->
        IF img.px[k] # 0 /\ Cardinality(Grow8(img, Nonzero(img), {k})) >= P
        THEN 255 ELSE 0]]

\* C23: bwareaopen(binary_image, min_size) is MATLAB's bwareaopen: a
\* foreground pixel survives iff its 8-connected component has at least
\* min_size pixels, survivors are 255 and every other pixel is 0.
C23_BwareaopenIsMatlab ==
    e_result # NoResult =>
        e_result.clean_pass1 = MatlabBwareaopen(e_edges, e_min_object_size)

\* C23, the part that holds: with 4-connected components in place of
\* 8-connected ones, a pixel survives iff its component has at least
\* min_size pixels (one of exactly min_size is kept), every pixel of the
\* result is 0 or 255, and a second application changes nothing.
C23_FourConnectedPart ==
    e_result # NoResult =>
        /\ \A k \in Pixels(e_edges) :
              e_result.clean_pass1.px[k] =
                  IF e_edges.px[k] # 0
                     /\ Cardinality(MaskComponent(e_edges, k)) >= e_min_object_size
                  THEN 255 ELSE 0
        /\ bwareaopen(e_result.clean_pass1, e_min_object_size) = e_result.clean_pass1

\* C24: extract_edge_points returns exactly one pair (x, y) = (column, row)
\* for every nonzero pixel of the mask and nothing else, and in the result
\* of process_frame_edge num_edge_points equals len(edge_points) and the
\* number of nonzero pixels of binary_edge_image.
C24_EdgePointsAreNonzeroPixels ==
    e_result # NoResult =>
        /\ PointSet(e_result.edge_points) =
               { <<Col(e_result.binary_edge_image, k), Row(e_result.binary_edge_image, k)>> :
                     k \in Nonzero(e_result.binary_edge_image) }
        /\ Len(e_result.edge_points) = Cardinality(Nonzero(e_result.binary_edge_image))
        /\ e_result.num_edge_points = Len(e_result.edge_points)
        /\ PointSet(e_result.pass1_points) =
               { <<Col(e_result.clean_pass1, k), Row(e_result.clean_pass1, k)>> :
                     k \in Nonzero(e_result.clean_pass1) }
        /\ Len(e_result.pass1_points) = Cardinality(Nonzero(e_result.clean_pass1))

\* A result with edge points in both rows, the pixel (x, y) = (2, 0) among
\* them, and background pixels left out.
C24_Witness ==
    /\ e_result # NoResult
    /\ e_result.num_edge_points = 4
    /\ \E i \in 1 .. Len(e_result.edge_points) : e_result.edge_points[i] = <<2, 0>>
    /\ \E i \in 1 .. Len(e_result.edge_points) : e_result.edge_points[i][2] = 1

\* C25: an analysis loop that gets no further user input terminates:
\* update_video is rescheduled only finitely often and is_playing
\* eventually becomes false.
C25_AnalysisTerminates ==
    (is_playing /\ user_events = MaxUserEvents) ~> ~is_playing

\* C25, the part that holds: a callback that finds a frame to handle and
\* returns moves the slider by exactly 1 and schedules the next callback.
C25_CallbackAdvancesByOne ==
    [][(/\ user_events' = user_events
        /\ after_update_video' = after_update_video
        /\ is_playing /\ is_playing')
       => video_slider'.value = video_slider.value + 1]_vars

\* C26: an analysis run covers the whole video: when the run reports
\* completion, every frame 0 .. N-1 that can be read has been recorded in
\* analysis_results exactly once, the last frame N-1 included.
C26_RunCoversWholeVideo ==
    [][(is_playing /\ ~is_playing' /\ video_capture # None)
       => \A n \in 0 .. num_frames - 1 :
             video_read(video_capture, n).ret
             => Cardinality({ i \in 1 .. Len(analysis_results') :
                                 analysis_results'[i].frame_number = n }) = 1]_vars

\* C26, what the loop does: the frame N-1 is never recorded by the run that
\* completes with the slider on it.
C26_LastFrameNeverRecorded ==
    [][(is_playing /\ ~is_playing' /\ video_slider.value = num_frames - 1)
       => analysis_results' = analysis_results]_vars

\* C27: at most one analysis loop is active at any time: start_analysis
\* while is_playing is true creates no second pending update_video callback.
C27_SingleCallbackChain == after_update_video <= 1

\* C27, second part as claimed: start_analysis while is_playing is true
\* resets neither analysis_results nor the frame position of the run.
C27_RestartKeepsRun ==
    [][(/\ is_playing /\ is_calibrated /\ after_update_video > 0
        /\ user_events' # user_events
        /\ after_update_video' > after_update_video)
       => /\ Len(analysis_results') >= Len(analysis_results)
          /\ video_slider'.value >= video_slider.value]_vars

\* The lines on their way to a read_line caller, in order: those returned
\* already, those in read_queue and the one the reader is about to put.
SerialLinesInOrder ==
    s_delivered \o s_read_queue \o (IF s_reader = "put" THEN <<s_line.v>> ELSE <<>>)

Deliverable(raw) == ~decode_strip(raw).raised /\ decode_strip(raw).line # ""

RECURSIVE DecodedLines(_)
DecodedLines(raws) ==
    IF raws = <<>> THEN <<>>
    ELSE (IF Deliverable(Head(raws)) THEN <<decode_strip(Head(raws)).line>> ELSE <<>>)
         \o DecodedLines(Tail(raws))

\* C28 as stated: every non-empty line the reader thread reads from the
\* port is delivered by read_line exactly once and in the order it was
\* read, in every interleaving of the reader with read_line callers, and
\* read_line returns None only when the queue holds no line.
C28_EveryLineDelivered ==
    /\ (read_line(s_read_queue).line.kind = "None") <=> (s_read_queue = <<>>)
    /\ Len(SerialLinesInOrder) = Len(s_read)
    /\ \A i \in 1 .. Len(s_read) : SerialLinesInOrder[i] = decode_strip(s_read[i]).line

\* C28, amended: every line the reader thread reads from the port that
\* decodes as UTF-8 and is not empty once stripped of white space is
\* delivered by read_line (stripped) exactly once and in the order it was
\* read, in every interleaving of the reader with read_line callers, and
\* read_line returns None only when the queue holds no line.
C28_DecodedLinesDelivered ==
    /\ (read_line(s_read_queue).line.kind = "None") <=> (s_read_queue = <<>>)
    /\ SerialLinesInOrder = DecodedLines(s_read)

\* Two lines were read and both have been returned by read_line.
C28_Witness ==
    /\ s_read = <<"a\n", " b\r\n">>
    /\ s_delivered = <<"a", "b">>

\* C29: disconnect() on an open connection always returns, wherever the
\* reader thread is in its loop; when it has returned is_running is false,
\* the reader thread has terminated, the port is closed; the port is closed
\* only once the reader has terminated; and after the return the reader
\* reads nothing more from the port and puts nothing more in the queue.
C29_DisconnectReturnsCleanly ==
    /\ (s_main = "join") ~> (s_main = "idle" /\ s_returned)
    /\ [](s_returned => ~s_is_running /\ ~ReaderAlive(s_reader) /\ ~s_open)
    /\ [][s_main = "join" /\ s_open /\ ~s_open' => ~ReaderAlive(s_reader)]_vars
    /\ [][s_returned /\ s_returned' =>
            /\ s_read' = s_read
            /\ s_port' = s_port
            /\ Len(s_read_queue') <= Len(s_read_queue)]_vars

\* disconnect() has returned although it found the reader thread in the
\* middle of its loop, with a line read from the port.
C29_Witness ==
    /\ s_returned
    /\ s_main = "idle"
    /\ s_read # <<>>
    /\ s_reader = "dead"

\* C30: in every state in which no SerialManager call is in progress, the
\* port is open and is_running is true iff the reader thread of the
\* SerialManager is alive; a reader that stopped never leaves the port
\* open; and repeated connect_serial calls leave at most one reader thread
\* and at most one check_serial_queue chain alive.
C30_OneReaderPerOpenPort ==
    s_main = "idle" =>
        /\ (s_open /\ s_is_running) <=> ReaderAlive(s_reader)
        /\ s_open => ReaderAlive(s_reader)
        /\ s_orphans = 0
        /\ s_polls <= 1

\* The part of C30 that holds: while the port of a SerialManager stays
\* open, connect() starts no reader thread for it.
C30_ConnectOnOpenStartsNoThread ==
    [][s_open /\ s_orphans' = s_orphans /\ s_polls' = s_polls
          => ~(s_reader \in {"none", "dead"} /\ s_reader' = "check")]_vars

\* One part of C30 on its own: a reader thread that stopped on a
\* SerialException never leaves the port open.
C30_StoppedReaderClosesPort ==
    ~(s_main = "idle" /\ s_open /\ ~s_is_running /\ s_reader = "dead")

\* One part of C30 on its own: a second connect_serial never leaves the
\* reader thread of the replaced SerialManager running beside a second
\* check_serial_queue chain.
C30_SecondConnectLeavesNoReader ==
    ~(s_main = "idle" /\ s_orphans = 1 /\ s_polls = 2)

====
